---------------------------- MODULE Spec2Model ----------------------------
(***************************************************************************)
(* Social post editor: the document model (state.py), the rename-with-     *)
(* propagation operations, the page delete handlers, the validator         *)
(* (validators.py) and the exporter (io_js_export.py).                     *)
(*                                                                         *)
(* Representation of Python values.                                        *)
(*   - a str is a sequence of text atoms; an atom is one character or one  *)
(*     literal of the program text (<<"profiles">>, <<" ", "a">>, ...);    *)
(*   - a JSON value is a tagged tuple: <<"str", s>>, <<"int", n>>,         *)
(*     <<"null">>, <<"list", seq>>, <<"dict", pairs>>;                     *)
(*   - the content of a dict is the sequence of its <<key, value>> pairs   *)
(*     in insertion order (Python dicts keep insertion order).             *)
(*                                                                         *)
(* Signals.  An emit is recorded in emitted with what a directly connected *)
(* slot sees at that moment.  The slots the pages connect to dataChanged   *)
(* (their reload_from_state) belong to the widget layer and are not part   *)
(* of this model.                                                          *)
(***************************************************************************)
EXTENDS Integers, Sequences, FiniteSets, TLC

VARIABLES data, is_dirty, current_path, pc, call, emitted

vars == <<data, is_dirty, current_path, pc, call, emitted>>

(***************************************************************************)
(* Bounds of the model.                                                    *)
(***************************************************************************)
\* number of distinct identifier letters used for keys and references
NumLetters == 2
\* number of blanks that may come before or after a name typed by the caller
MaxPad == 1

(***************************************************************************)
(* Python values.                                                          *)
(***************************************************************************)
JStr(s) == <<"str", s>>
JInt(n) == <<"int", n>>
JNull == <<"null">>
JList(xs) == <<"list", xs>>
JDict(pairs) == <<"dict", pairs>>
EmptyDict == JDict(<<>>)

IsStr(v) == v[1] = "str"
IsInt(v) == v[1] = "int"
IsList(v) == v[1] = "list"
IsDict(v) == v[1] = "dict"

\* bool(v)
Truthy(v) ==
    CASE v[1] = "null" -> FALSE
      [] v[1] = "int" -> v[2] # 0
      [] OTHER -> Len(v[2]) > 0

\* (v or default)
OrElse(v, default) == IF Truthy(v) THEN v ELSE default

(***************************************************************************)
(* str operations.                                                         *)
(***************************************************************************)
IsSpace(c) == c = " "

RECURSIVE LStrip(_)
LStrip(s) == IF s # <<>> /\ IsSpace(Head(s)) THEN LStrip(Tail(s)) ELSE s

RECURSIVE RStrip(_)
RStrip(s) ==
    IF s # <<>> /\ IsSpace(s[Len(s)]) THEN RStrip(SubSeq(s, 1, Len(s) - 1)) ELSE s

\* s.strip()
Strip(s) == RStrip(LStrip(s))

\* sub in s, for two str
IsSubstring(sub, s) ==
    \E i \in 1..(Len(s) + 1) :
        /\ i + Len(sub) - 1 <= Len(s)
        /\ SubSeq(s, i, i + Len(sub) - 1) = sub

(***************************************************************************)
(* dict operations, on the pair sequence of a dict.                        *)
(***************************************************************************)
KeysOf(pairs) == [i \in DOMAIN pairs |-> pairs[i][1]]
KeySet(pairs) == {pairs[i][1] : i \in DOMAIN pairs}
Has(pairs, k) == \E i \in DOMAIN pairs : pairs[i][1] = k
IndexOf(pairs, k) == CHOOSE i \in DOMAIN pairs : pairs[i][1] = k
At(pairs, k) == pairs[IndexOf(pairs, k)][2]
\* d.get(k, default)
Get(pairs, k, default) == IF Has(pairs, k) THEN At(pairs, k) ELSE default
\* d[k] = v : an existing key keeps its position, a new key goes last
Put(pairs, k, v) ==
    IF Has(pairs, k)
    THEN [i \in DOMAIN pairs |-> IF pairs[i][1] = k THEN <<k, v>> ELSE pairs[i]]
    ELSE Append(pairs, <<k, v>>)
\* the dict after d.pop(k, None)
Without(pairs, k) ==
    IF Has(pairs, k)
    THEN LET i == IndexOf(pairs, k)
         IN SubSeq(pairs, 1, i - 1) \o SubSeq(pairs, i + 1, Len(pairs))
    ELSE pairs
\* the dict after d.setdefault(k, default)
SetDefault(pairs, k, default) == IF Has(pairs, k) THEN pairs ELSE Append(pairs, <<k, default>>)

\* x in c : "yes", "no", or "TypeError" when c is not a container
PyIn(x, c) ==
    CASE IsDict(c) -> IF Has(c[2], x) THEN "yes" ELSE "no"
      [] IsList(c) -> IF \E i \in DOMAIN c[2] : c[2][i] = JStr(x) THEN "yes" ELSE "no"
      [] IsStr(c) -> IF IsSubstring(x, c[2]) THEN "yes" ELSE "no"
      [] OTHER -> "TypeError"


(***************************************************************************)
(* Key literals of the document.                                           *)
(***************************************************************************)
K_profiles == <<"profiles">>
K_heroine == <<"heroine">>
K_usernames == <<"usernames">>
K_commentBlocks == <<"commentBlocks">>
K_commentSets == <<"commentSets">>
K_emojiPresets == <<"emojiPresets">>
K_posts == <<"posts">>
K_usernamePool == <<"usernamePool">>
K_comments == <<"comments">>
K_commentsSet == <<"commentsSet">>
K_emojiPreset == <<"emojiPreset">>
K_emojiOverride == <<"emojiOverride">>
K_order == <<"order">>

(***************************************************************************)
(* state.py : AppState.  An AppState object is the record                  *)
(* [data, current_path, is_dirty, emitted]; emitted lists the signals sent *)
(* during the running call, each with what a directly connected slot sees  *)
(* of the object at that moment.                                           *)
(***************************************************************************)
default_data ==
    JDict(<< <<K_profiles, EmptyDict>>,
             <<K_heroine, JDict(<< <<K_posts, EmptyDict>> >>)>>,
             <<K_usernames, EmptyDict>>,
             <<K_commentBlocks, EmptyDict>>,
             <<K_commentSets, EmptyDict>>,
             <<K_emojiPresets, EmptyDict>> >>)

Emit(self, signal, arg) ==
    [self EXCEPT !.emitted =
        Append(@, [signal |-> signal, arg |-> arg,
                   data |-> self.data, is_dirty |-> self.is_dirty])]

set_dirty(self, value) ==
    IF self.is_dirty = value
    THEN self
    ELSE Emit([self EXCEPT !.is_dirty = value], "dirtyChanged", value)

mark_dirty(self) == set_dirty(self, TRUE)

\* faulty variant of _emit_changed: the signal goes out before the flag is set
emit_then_mark(self) == mark_dirty(Emit(self, "dataChanged", FALSE))

emit_changed(self) == Emit(mark_dirty(self), "dataChanged", FALSE)

\* faulty variant of set_data: what is no mapping leaves the document in place
set_data_or_keep(self, new_data, path) ==
    LET s1 == [self EXCEPT !.data = IF IsDict(new_data) THEN new_data ELSE self.data,
                           !.current_path = path]
    IN Emit(set_dirty(s1, FALSE), "dataChanged", FALSE)

set_data(self, new_data, path) ==
    LET s1 == [self EXCEPT !.data = IF IsDict(new_data) THEN new_data ELSE default_data,
                           !.current_path = path]
    IN Emit(set_dirty(s1, FALSE), "dataChanged", FALSE)

\* the outcome of a call: the object after it and what the caller gets,
\* "True" / "False" / "None" or the name of the exception that escapes
Outcome(self, ret) == [self |-> self, ret |-> ret, value |-> <<>>]
\* the same for a call that hands back a value
Gives(self, ret, value) == [self |-> self, ret |-> ret, value |-> value]

(***************************************************************************)
(* The loop bodies of the renames: each walks a dict in insertion order    *)
(* and stops where Python raises, leaving the earlier writes in place.     *)
(***************************************************************************)
\* faulty variant of the rewrite: the reference is left as it is
KeepRef(x, field, old, new) == x

\* if isinstance(x, dict) and x.get(field) == old: x[field] = new
RewriteRef(x, field, old, new) ==
    IF IsDict(x) /\ Has(x[2], field) /\ At(x[2], field) = JStr(old)
    THEN JDict(Put(x[2], field, JStr(new)))
    ELSE x

\* for _, post in posts.items(): if isinstance(post, dict): yield post
RewritePosts(posts, field, old, new) ==
    [i \in DOMAIN posts |-> <<posts[i][1], RewriteRef(posts[i][2], field, old, new)>>]

\* one profile of the walk: posts = (prof or {}).get("posts", {}) or {}
RewriteProfile(prof, field, old, new) ==
    LET p == OrElse(prof, EmptyDict) IN
    IF ~IsDict(p) THEN [value |-> prof, exc |-> "AttributeError"]
    ELSE LET posts == OrElse(Get(p[2], K_posts, EmptyDict), EmptyDict) IN
         IF ~IsDict(posts) THEN [value |-> prof, exc |-> "AttributeError"]
         ELSE IF posts[2] = <<>> THEN [value |-> prof, exc |-> "none"]
         ELSE [value |-> JDict(Put(p[2], K_posts,
                                   JDict(RewritePosts(posts[2], field, old, new)))),
               exc |-> "none"]

RECURSIVE RewriteProfiles(_, _, _, _, _)
RewriteProfiles(profs, i, field, old, new) ==
    IF i > Len(profs) THEN [value |-> profs, exc |-> "none"]
    ELSE LET r == RewriteProfile(profs[i][2], field, old, new) IN
         IF r.exc # "none" THEN [value |-> profs, exc |-> r.exc]
         ELSE RewriteProfiles([profs EXCEPT ![i] = <<profs[i][1], r.value>>],
                              i + 1, field, old, new)

\* faulty variant of the walk: the heroine's posts are left out
iter_public_posts(d, field, old, new) ==
    LET profiles == OrElse(Get(d, K_profiles, EmptyDict), EmptyDict) IN
    IF ~IsDict(profiles) THEN [value |-> d, exc |-> "AttributeError"]
    ELSE
    LET r == RewriteProfiles(profiles[2], 1, field, old, new)
    IN [value |-> IF profiles[2] = <<>> THEN d ELSE Put(d, K_profiles, JDict(r.value)),
        exc |-> r.exc]

\* for post in self._iter_all_posts(): if post.get(field) == old: post[field] = new
iter_all_posts(d, field, old, new) ==
    LET profiles == OrElse(Get(d, K_profiles, EmptyDict), EmptyDict) IN
    IF ~IsDict(profiles) THEN [value |-> d, exc |-> "AttributeError"]
    ELSE
    LET r == RewriteProfiles(profiles[2], 1, field, old, new)
        d1 == IF profiles[2] = <<>> THEN d ELSE Put(d, K_profiles, JDict(r.value))
    IN
    IF r.exc # "none" THEN [value |-> d1, exc |-> r.exc]
    ELSE
    LET heroine == OrElse(Get(d1, K_heroine, EmptyDict), EmptyDict) IN
    IF ~IsDict(heroine) THEN [value |-> d1, exc |-> "AttributeError"]
    ELSE
    LET h == RewriteProfile(heroine, field, old, new) IN
    IF h.exc # "none" THEN [value |-> d1, exc |-> h.exc]
    ELSE [value |-> IF heroine[2] = <<>> THEN d1 ELSE Put(d1, K_heroine, h.value),
          exc |-> "none"]

\* faulty variant of the block loop: the pool is renamed, no block follows
RewriteNoBlock(d, old, new) == [value |-> d, exc |-> "none"]

\* for _, b in blocks.items(): if isinstance(b, dict) and b.get("usernamePool") == old: ...
RewriteBlocks(d, old, new) ==
    LET blocks == OrElse(Get(d, K_commentBlocks, EmptyDict), EmptyDict) IN
    IF ~IsDict(blocks) THEN [value |-> d, exc |-> "AttributeError"]
    ELSE IF blocks[2] = <<>> THEN [value |-> d, exc |-> "none"]
    ELSE [value |-> Put(d, K_commentBlocks,
                        JDict(RewritePosts(blocks[2], K_usernamePool, old, new))),
          exc |-> "none"]

\* faulty variant of the move: the value is copied to the new key and the old
\* key stays
CopyKey(d, section, old, new) ==
    LET s == At(d, section)[2]
    IN Put(d, section, JDict(Put(s, new, At(s, old))))

\* section[new] = section.pop(old), on the dict that holds the section
MoveKey(d, section, old, new) ==
    LET s == At(d, section)[2]
    IN Put(d, section, JDict(Put(Without(s, old), new, At(s, old))))

\* the checks of a rename on the section object, after the names are
\* trimmed: "go", "False", or the exception Python raises
RenameGuard(sec, old, new) ==
    CASE PyIn(old, sec) = "TypeError" -> "TypeError"
      [] PyIn(old, sec) = "no" -> "False"
      [] PyIn(new, sec) = "yes" -> "False"
      [] IsList(sec) -> "TypeError"
      [] IsStr(sec) -> "AttributeError"
      [] OTHER -> "go"

\* faulty variant of the failure return: the change is announced all the same
ReturnFalseNotified(self) == Outcome(emit_changed(self), "False")

\* return False : the object is handed back as it is
ReturnFalse(self) == Outcome(self, "False")

rename_username_pool(self, old0, new0) ==
    LET old == Strip(old0)
        new == Strip(new0)
    IN
    IF old = <<>> \/ new = <<>> \/ old = new THEN ReturnFalse(self)
    ELSE
    LET d0 == SetDefault(self.data[2], K_usernames, EmptyDict)
        s0 == [self EXCEPT !.data = JDict(d0)]
        g == RenameGuard(At(d0, K_usernames), old, new)
    IN
    IF g = "False" THEN ReturnFalse(s0)
    ELSE IF g # "go" THEN Outcome(s0, g)
    ELSE
    LET r == RewriteBlocks(MoveKey(d0, K_usernames, old, new), old, new)
        s1 == [self EXCEPT !.data = JDict(r.value)]
    IN
    IF r.exc # "none" THEN Outcome(s1, r.exc)
    ELSE Outcome(emit_changed(s1), "True")

rename_comment_set(self, old0, new0) ==
    LET old == Strip(old0)
        new == Strip(new0)
    IN
    IF old = <<>> \/ new = <<>> \/ old = new THEN ReturnFalse(self)
    ELSE
    LET d0 == SetDefault(self.data[2], K_commentSets, EmptyDict)
        s0 == [self EXCEPT !.data = JDict(d0)]
        g == RenameGuard(At(d0, K_commentSets), old, new)
    IN
    IF g = "False" THEN ReturnFalse(s0)
    ELSE IF g # "go" THEN Outcome(s0, g)
    ELSE
    LET r == iter_all_posts(MoveKey(d0, K_commentSets, old, new), K_commentsSet, old, new)
        s1 == [self EXCEPT !.data = JDict(r.value)]
    IN
    IF r.exc # "none" THEN Outcome(s1, r.exc)
    ELSE Outcome(emit_changed(s1), "True")

rename_emoji_preset(self, old0, new0) ==
    LET old == Strip(old0)
        new == Strip(new0)
    IN
    IF old = <<>> \/ new = <<>> \/ old = new THEN ReturnFalse(self)
    ELSE
    LET d0 == SetDefault(self.data[2], K_emojiPresets, EmptyDict)
        s0 == [self EXCEPT !.data = JDict(d0)]
        g == RenameGuard(At(d0, K_emojiPresets), old, new)
    IN
    IF g = "False" THEN ReturnFalse(s0)
    ELSE IF g # "go" THEN Outcome(s0, g)
    ELSE
    LET r == iter_all_posts(MoveKey(d0, K_emojiPresets, old, new), K_emojiPreset, old, new)
        s1 == [self EXCEPT !.data = JDict(r.value)]
    IN
    IF r.exc # "none" THEN Outcome(s1, r.exc)
    ELSE Outcome(emit_changed(s1), "True")


(***************************************************************************)
(* validators.py                                                           *)
(***************************************************************************)
RECURSIVE ConcatAll(_)
ConcatAll(seqs) == IF seqs = <<>> THEN <<>> ELSE Head(seqs) \o ConcatAll(Tail(seqs))

\* Issue(level, path, message)
Issue(level, path, message) == [level |-> level, path |-> path, message |-> message]

\* faulty variant of _is_non_empty_str: the text is not trimmed
is_non_empty_str_untrimmed(x) == IsStr(x) /\ x[2] # <<>>

is_non_empty_str(x) == IsStr(x) /\ Strip(x[2]) # <<>>

\* data.get(k, {}) or {} : the value read, and the dict it was read from
ReadSection(d, k) == [data |-> d, value |-> OrElse(Get(d, k, EmptyDict), EmptyDict)]

\* the (path_prefix, post) pairs of one posts member, in insertion order
PostsOf(prefix, prof) ==
    IF ~IsDict(prof) THEN <<>>
    ELSE LET posts == OrElse(Get(prof[2], K_posts, EmptyDict), EmptyDict) IN
         IF ~IsDict(posts) THEN <<>>
         ELSE LET all == [i \in DOMAIN posts[2] |->
                            <<prefix \o posts[2][i][1], posts[2][i][2]>>]
              IN SelectSeq(all, LAMBDA x : IsDict(x[2]))

\* faulty variant of _iter_all_posts: the heroine's posts are walked first
iter_heroine_first(d) ==
    LET profiles == OrElse(Get(d, K_profiles, EmptyDict), EmptyDict)
        heroine == OrElse(Get(d, K_heroine, EmptyDict), EmptyDict)
        public ==
            IF ~IsDict(profiles) THEN <<>>
            ELSE ConcatAll([i \in DOMAIN profiles[2] |->
                    PostsOf(<<"profiles.">> \o profiles[2][i][1] \o <<".posts.">>,
                            profiles[2][i][2])])
    IN PostsOf(<<"heroine.posts.">>, heroine) \o public

\* _iter_all_posts(data) : public profiles first, then the heroine
validator_iter_all_posts(d) ==
    LET profiles == OrElse(Get(d, K_profiles, EmptyDict), EmptyDict)
        heroine == OrElse(Get(d, K_heroine, EmptyDict), EmptyDict)
        public ==
            IF ~IsDict(profiles) THEN <<>>
            ELSE ConcatAll([i \in DOMAIN profiles[2] |->
                    PostsOf(<<"profiles.">> \o profiles[2][i][1] \o <<".posts.">>,
                            profiles[2][i][2])])
    IN public \o PostsOf(<<"heroine.posts.">>, heroine)

\* the issues of one pool
PoolIssues(pool_id, names) ==
    LET p == <<"usernames.">> \o pool_id IN
    IF ~IsList(names)
    THEN <<Issue("ERROR", p, <<"Doit etre une liste de strings.">>)>>
    ELSE ConcatAll([i \in DOMAIN names[2] |->
            IF ~is_non_empty_str(names[2][i])
            THEN <<Issue("WARN", p \o <<"[", ToString(i - 1), "]">>,
                         <<"Nom vide ou non-string.">>)>>
            ELSE <<>>])

\* the issues of one comment block
BlockIssues(block_id, block, usernames) ==
    LET p == <<"commentBlocks.">> \o block_id IN
    IF ~IsDict(block)
    THEN <<Issue("ERROR", p, <<"Block doit etre un dict.">>)>>
    ELSE LET pool == Get(block[2], K_usernamePool, JStr(<<>>)) IN
         IF is_non_empty_str(pool) /\ ~Has(usernames[2], pool[2])
         THEN <<Issue("ERROR", p \o <<".usernamePool">>,
                      <<"Pool '">> \o pool[2] \o <<"' introuvable dans usernames.">>)>>
         ELSE <<>>

\* faulty variant of the check of one comment set: no continue after the WARN
SetIssuesNoSkip(set_id, block_ids, comment_blocks) ==
    LET p == <<"commentSets.">> \o set_id IN
    IF ~IsList(block_ids)
    THEN <<Issue("ERROR", p, <<"Doit etre une liste de blockId.">>)>>
    ELSE ConcatAll([i \in DOMAIN block_ids[2] |->
            LET bid == block_ids[2][i]
                pi == p \o <<"[", ToString(i - 1), "]">>
            IN (IF ~is_non_empty_str(bid)
                THEN <<Issue("WARN", pi, <<"Reference blockId vide ou non-string.">>)>>
                ELSE <<>>)
               \o
               (IF ~(IsStr(bid) /\ Has(comment_blocks[2], bid[2]))
                THEN <<Issue("ERROR", pi, <<"BlockId introuvable dans commentBlocks.">>)>>
                ELSE <<>>)])

\* the issues of one comment set
SetIssues(set_id, block_ids, comment_blocks) ==
    LET p == <<"commentSets.">> \o set_id IN
    IF ~IsList(block_ids)
    THEN <<Issue("ERROR", p, <<"Doit etre une liste de blockId.">>)>>
    ELSE ConcatAll([i \in DOMAIN block_ids[2] |->
            LET bid == block_ids[2][i]
                pi == p \o <<"[", ToString(i - 1), "]">>
            IN IF ~is_non_empty_str(bid)
               THEN <<Issue("WARN", pi, <<"Reference blockId vide ou non-string.">>)>>
               ELSE IF ~Has(comment_blocks[2], bid[2])
               THEN <<Issue("ERROR", pi,
                            <<"BlockId '">> \o bid[2]
                                \o <<"' introuvable dans commentBlocks.">>)>>
               ELSE <<>>])

\* the issues of one post
PostIssues(post_path, post, emoji_presets, comment_sets) ==
    LET ep == Get(post[2], K_emojiPreset, JStr(<<>>))
        cs == Get(post[2], K_commentsSet, JStr(<<>>))
    IN (IF is_non_empty_str(ep) /\ ~Has(emoji_presets[2], ep[2])
        THEN <<Issue("ERROR", post_path \o <<".emojiPreset">>,
                     <<"Preset '">> \o ep[2] \o <<"' introuvable dans emojiPresets.">>)>>
        ELSE <<>>)
       \o
       (IF is_non_empty_str(cs) /\ ~Has(comment_sets[2], cs[2])
        THEN <<Issue("ERROR", post_path \o <<".commentsSet">>,
                     <<"Set '">> \o cs[2] \o <<"' introuvable dans commentSets.">>)>>
        ELSE <<>>)

\* if not isinstance(section, dict): issues.append(ERROR); section = {}
SectionTypeIssue(section, name, message) ==
    IF ~IsDict(section) THEN <<Issue("ERROR", <<name>>, <<message>>)>> ELSE <<>>

DictOrEmpty(section) == IF IsDict(section) THEN section ELSE EmptyDict

\* validate_database(data) : the issues, and data as the call leaves it
validate_database(d) ==
    LET r1 == ReadSection(d, K_usernames)
        r2 == ReadSection(r1.data, K_commentBlocks)
        r3 == ReadSection(r2.data, K_commentSets)
        r4 == ReadSection(r3.data, K_emojiPresets)
        usernames == DictOrEmpty(r1.value)
        comment_blocks == DictOrEmpty(r2.value)
        comment_sets == DictOrEmpty(r3.value)
        emoji_presets == DictOrEmpty(r4.value)
        posts == validator_iter_all_posts(r4.data)
    IN [data |-> r4.data,
        issues |->
            SectionTypeIssue(r1.value, "usernames",
                             "Doit etre un dictionnaire (poolId -> [names]).")
            \o SectionTypeIssue(r2.value, "commentBlocks",
                                "Doit etre un dictionnaire (blockId -> block).")
            \o SectionTypeIssue(r3.value, "commentSets",
                                "Doit etre un dictionnaire (setId -> [blockIds]).")
            \o SectionTypeIssue(r4.value, "emojiPresets",
                                "Doit etre un dictionnaire (presetId -> preset).")
            \o ConcatAll([i \in DOMAIN usernames[2] |->
                    PoolIssues(usernames[2][i][1], usernames[2][i][2])])
            \o ConcatAll([i \in DOMAIN comment_blocks[2] |->
                    BlockIssues(comment_blocks[2][i][1], comment_blocks[2][i][2],
                                usernames)])
            \o ConcatAll([i \in DOMAIN comment_sets[2] |->
                    SetIssues(comment_sets[2][i][1], comment_sets[2][i][2],
                              comment_blocks)])
            \o ConcatAll([i \in DOMAIN posts |->
                    PostIssues(posts[i][1], posts[i][2], emoji_presets, comment_sets)])]

(***************************************************************************)
(* io_js_export.py                                                         *)
(***************************************************************************)
\* the text atoms in the order Python gives them as strings: the characters
\* in code point order, with the literals of the program among them
CodeOrder ==
    <<
      " ", "*", "-", ".", "0", "1", "2", "3", "4", "5", "6", "7", "8", "9", "A", "B",
      "C", "D", "E", "F", "G", "H", "I", "J", "K", "L", "M", "N", "O", "P", "Q", "R",
      "S", "T", "U", "V", "W", "X", "Y", "Z", "_", "a", "b", "blocks", "c", "comment",
      "commentBlocks", "commentSets", "comments", "commentsSet", "commentsSetId",
      "conditionJS", "d", "data", "defaultDisplayName", "defaultProfileImage",
      "description", "down", "e", "effectJs", "emoji", "emojiOverride", "emojiPreset",
      "emojiPresetId", "emojiPresets", "f", "g", "h", "heart", "heroine", "i", "id",
      "j", "k", "kind", "l", "lewdCondition", "m", "max", "min", "n", "o", "order",
      "p", "pictureName", "posts", "profiles", "q", "r", "s", "t", "texts", "timeslot",
      "u", "up", "usernamePool", "usernames", "v", "w", "x", "y", "z"
    >>

Rank(c) == CHOOSE i \in DOMAIN CodeOrder : CodeOrder[i] = c

\* s < t for two str
RECURSIVE StrLess(_, _)
StrLess(s, u) ==
    CASE u = <<>> -> FALSE
      [] s = <<>> -> TRUE
      [] Rank(Head(s)) # Rank(Head(u)) -> Rank(Head(s)) < Rank(Head(u))
      [] OTHER -> StrLess(Tail(s), Tail(u))

\* faulty variant of the sort: the pairs in insertion order
InsertionOrder(pairs) == pairs

\* sorted(d.keys()) with the pairs they name
RECURSIVE SortedPairs(_)
SortedPairs(pairs) ==
    IF pairs = <<>> THEN <<>>
    ELSE LET m == CHOOSE i \in DOMAIN pairs :
                    \A j \in DOMAIN pairs : j = i \/ StrLess(pairs[i][1], pairs[j][1])
         IN <<pairs[m]>> \o SortedPairs(Without(pairs, pairs[m][1]))

\* json.dumps(v, sort_keys=True) : the value with every dict in key order
RECURSIVE Dumps(_)
Dumps(v) ==
    CASE IsDict(v) ->
            LET s == SortedPairs(v[2])
            IN JDict([i \in DOMAIN s |-> <<s[i][1], Dumps(s[i][2])>>])
      [] IsList(v) -> JList([i \in DOMAIN v[2] |-> Dumps(v[2][i])])
      [] OTHER -> v

\* what a step of the export gives: a value, or the exception it raises
Ok(v) == [exc |-> "none", value |-> v]
Raise(e) == [exc |-> e, value |-> JNull]

\* the first exception of a sequence of steps, "none" when all went through
RECURSIVE FirstExc(_)
FirstExc(steps) ==
    IF steps = <<>> THEN "none"
    ELSE IF Head(steps).exc # "none" THEN Head(steps).exc
    ELSE FirstExc(Tail(steps))

\* dict(x), x truthy
DictCopy(x) ==
    CASE IsDict(x) -> Ok(x)
      [] IsInt(x) -> Raise("TypeError")
      [] OTHER -> Raise("ValueError")

\* list(x), x truthy or a list
ListCopy(x) ==
    CASE IsList(x) -> Ok(x)
      [] IsStr(x) -> Ok(JList([i \in DOMAIN x[2] |-> JStr(<<x[2][i]>>)]))
      [] IsDict(x) -> Ok(JList([i \in DOMAIN x[2] |-> JStr(x[2][i][1])]))
      [] OTHER -> Raise("TypeError")

\* str(x)
StrOf(x) ==
    CASE IsStr(x) -> x
      [] IsInt(x) -> JStr(<<ToString(x[2])>>)
      [] OTHER -> JStr(<<"repr">>)

UpperCase ==
    <<
      "A", "B", "C", "D", "E", "F", "G", "H", "I", "J", "K", "L", "M", "N", "O", "P",
      "Q", "R", "S", "T", "U", "V", "W", "X", "Y", "Z"
    >>
LowerCase ==
    <<
      "a", "b", "c", "d", "e", "f", "g", "h", "i", "j", "k", "l", "m", "n", "o", "p",
      "q", "r", "s", "t", "u", "v", "w", "x", "y", "z"
    >>
IsUpper(c) == \E i \in DOMAIN UpperCase : UpperCase[i] = c
IsLower(c) == \E i \in DOMAIN LowerCase : LowerCase[i] = c
DigitChars == <<"0", "1", "2", "3", "4", "5", "6", "7", "8", "9">>
IsDigit(c) == \E i \in DOMAIN DigitChars : DigitChars[i] = c

\* two characters outside ASCII: the capital letter U+0130, and the combining
\* mark U+0307, which is no word character
DottedI == "U+0130"
DotAbove == "U+0307"

\* \w or "-" : what re.sub(r"[^\w\-]", "", value) keeps
IsKept(c) == IsUpper(c) \/ IsLower(c) \/ IsDigit(c) \/ c \in {"_", "-", DottedI}

\* c.lower(), a str: the lower case of U+0130 is "i" followed by U+0307
Lower(c) ==
    CASE c = DottedI -> <<"i", DotAbove>>
      [] IsUpper(c) -> <<LowerCase[CHOOSE i \in DOMAIN UpperCase : UpperCase[i] = c]>>
      [] OTHER -> <<c>>

\* s.lower()
RECURSIVE LowerStr(_)
LowerStr(s) == IF s = <<>> THEN <<>> ELSE Lower(Head(s)) \o LowerStr(Tail(s))

clean_timeslot(value) ==
    IF ~Truthy(value) THEN Ok(JStr(<<"all">>))
    ELSE IF ~IsStr(value) THEN Raise("TypeError")
    ELSE LET low == LowerStr(Strip(SelectSeq(value[2], IsKept)))
         IN Ok(JStr(IF low = <<>> THEN <<"all">> ELSE low))

MinMax(lo, hi) == JDict(<< <<<<"min">>, JInt(lo)>>, <<<<"max">>, JInt(hi)>> >>)

default_emoji ==
    JDict(<< <<<<"up">>, MinMax(0, 0)>>, <<<<"down">>, MinMax(0, 0)>>,
             <<<<"heart">>, MinMax(0, 0)>>, <<<<"comment">>, MinMax(0, 0)>> >>)

LewdMax == 999999

\* p.get(k, "") or ""
TextField(p, k) == OrElse(Get(p, k, JStr(<<>>)), JStr(<<>>))

\* faulty variant of the emoji entry: the values always go inline
EmojiInline(p, preset_id) ==
    <<<<"emoji">>, OrElse(Get(p, K_emojiOverride, default_emoji), default_emoji)>>

\* the emoji entry of an exported post: the preset by its id, or the values
\* inline when the post names no preset
EmojiEntry(p, preset_id) ==
    IF preset_id # <<>>
    THEN <<<<"emojiPresetId">>, JStr(preset_id)>>
    ELSE <<<<"emoji">>, OrElse(Get(p, K_emojiOverride, default_emoji), default_emoji)>>

\* _export_post(post)
export_post(post) ==
    LET c == DictCopy(OrElse(post, EmptyDict)) IN
    IF c.exc # "none" THEN c
    ELSE
    LET p == c.value[2]
        ts == clean_timeslot(Get(p, <<"timeslot">>, JStr(<<"all">>)))
        raw == TextField(p, K_emojiPreset)
    IN
    IF ts.exc # "none" THEN ts
    ELSE IF ~IsStr(raw) THEN Raise("AttributeError")
    ELSE
    LET out == << <<<<"pictureName">>, TextField(p, <<"pictureName">>)>>,
                  <<<<"description">>, TextField(p, <<"description">>)>>,
                  <<<<"timeslot">>, ts.value>>,
                  <<<<"conditionJS">>, TextField(p, <<"conditionJS">>)>>,
                  <<<<"effectJs">>, TextField(p, <<"effectJs">>)>>,
                  <<<<"commentsSetId">>, TextField(p, K_commentsSet)>>,
                  <<<<"lewdCondition">>,
                    OrElse(Get(p, <<"lewdCondition">>, MinMax(0, LewdMax)),
                           MinMax(0, LewdMax))>> >>
        preset_id == Strip(raw[2])
    IN
    Ok(JDict(Append(out, EmojiEntry(p, preset_id))))

\* sorted(section.keys()) with the values, nothing when the call raises
SortedItems(section) == IF IsDict(section) THEN SortedPairs(section[2]) ELSE <<>>

\* a loop "for k in sorted(section.keys()): out[k] = <step on section.get(k)>",
\* given the sorted items s and what the step gives for each
Collect(section, s, steps) ==
    IF ~IsDict(section) THEN Raise("AttributeError")
    ELSE IF FirstExc(steps) # "none" THEN Raise(FirstExc(steps))
    ELSE Ok(JDict([i \in DOMAIN s |-> <<s[i][1], steps[i].value>>]))

\* the posts of one profile, exported in key order
export_posts(posts) ==
    LET s == SortedItems(posts)
    IN Collect(posts, s, [i \in DOMAIN s |-> export_post(s[i][2])])

\* the exported profile around its exported posts
ProfileOf(prof, posts) ==
    IF posts.exc # "none" THEN posts
    ELSE Ok(JDict(<< <<<<"defaultDisplayName">>, TextField(prof, <<"defaultDisplayName">>)>>,
                    <<<<"defaultProfileImage">>, TextField(prof, <<"defaultProfileImage">>)>>,
                    <<K_posts, posts.value>> >>))

\* one profile (a public one or the heroine), prof truthy or {}
export_profile(prof) ==
    IF ~IsDict(prof) THEN Raise("AttributeError")
    ELSE ProfileOf(prof[2],
                   export_posts(OrElse(Get(prof[2], K_posts, EmptyDict), EmptyDict)))

\* faulty variant of the preset cleaning: the copy keeps "order"
CleanPresetWhole(preset) ==
    IF ~Truthy(preset) THEN [exc |-> "none", value |-> EmptyDict, stored |-> preset]
    ELSE IF ~IsDict(preset)
    THEN [exc |-> IF IsInt(preset) THEN "TypeError" ELSE "ValueError",
          value |-> JNull, stored |-> preset]
    ELSE [exc |-> "none", value |-> preset, stored |-> preset]

\* faulty variant of the preset cleaning: "order" is popped from the stored
\* preset itself, no copy is made
CleanPresetInPlace(preset) ==
    IF ~Truthy(preset) THEN [exc |-> "none", value |-> EmptyDict, stored |-> preset]
    ELSE IF ~IsDict(preset)
    THEN [exc |-> "AttributeError", value |-> JNull, stored |-> preset]
    ELSE [exc |-> "none", value |-> JDict(Without(preset[2], K_order)),
          stored |-> JDict(Without(preset[2], K_order))]

\* preset = dict(presets.get(id) or {}); preset.pop("order", None) :
\* the stored preset as the step leaves it, and the cleaned copy
CleanPreset(preset) ==
    LET c == DictCopy(OrElse(preset, EmptyDict)) IN
    IF c.exc # "none" THEN [exc |-> c.exc, value |-> JNull, stored |-> preset]
    ELSE [exc |-> "none", value |-> JDict(Without(c.value[2], K_order)), stored |-> preset]

\* faulty variant of the block cleaning: the legacy bare list is not read
CleanBlockDictOnly(b) ==
    LET pool_id == IF IsDict(b)
                   THEN OrElse(Get(b[2], K_usernamePool, JStr(<<"Global">>)), JStr(<<"Global">>))
                   ELSE JStr(<<"Global">>)
        texts == CASE IsDict(b) -> OrElse(Get(b[2], K_comments, JList(<<>>)), JList(<<>>))
                   [] OTHER -> JList(<<>>)
        l == ListCopy(texts)
    IN IF l.exc # "none" THEN l
       ELSE Ok(JDict(<< <<K_usernamePool, StrOf(pool_id)>>, <<<<"texts">>, l.value>> >>))

\* one comment block in its exported shape
CleanBlock(b) ==
    LET pool_id == IF IsDict(b)
                   THEN OrElse(Get(b[2], K_usernamePool, JStr(<<"Global">>)), JStr(<<"Global">>))
                   ELSE JStr(<<"Global">>)
        texts == CASE IsDict(b) -> OrElse(Get(b[2], K_comments, JList(<<>>)), JList(<<>>))
                   [] IsList(b) -> b
                   [] OTHER -> JList(<<>>)
        l == ListCopy(texts)
    IN IF l.exc # "none" THEN l
       ELSE Ok(JDict(<< <<K_usernamePool, StrOf(pool_id)>>, <<<<"texts">>, l.value>> >>))

\* one comment set in its exported shape
CleanSet(s) ==
    ListCopy(CASE IsList(s) -> s
               [] IsDict(s) -> OrElse(Get(s[2], <<"blocks">>, JList(<<>>)), JList(<<>>))
               [] OTHER -> JList(<<>>))

\* the emoji presets as the cleaning loop leaves them in data
PresetsAfterClean(section) ==
    IF ~IsDict(section) THEN section
    ELSE JDict([i \in DOMAIN section[2] |->
                    <<section[2][i][1], CleanPreset(section[2][i][2]).stored>>])

\* _export_username_pools(pools) : the (poolId, names) pairs in poolId order,
\* the names as json.dumps writes them, a dict among them in insertion order
export_username_pools(pools) ==
    LET src == OrElse(pools, EmptyDict) IN
    IF ~IsDict(src) THEN Raise("AttributeError")
    ELSE LET s == SortedPairs(src[2])
         IN Ok(JList([i \in DOMAIN s |->
                        JList(<<JStr(s[i][1]), OrElse(s[i][2], JList(<<>>))>>)]))

\* the exported module once the six tables are built in the order of steps,
\* or the first exception raised while building them; after is data as the
\* call leaves it
ExportedModule(after, steps) ==
    IF FirstExc(steps) # "none"
    THEN [data |-> JDict(after), exc |-> FirstExc(steps), msg |-> <<>>, out |-> JNull]
    ELSE [data |-> JDict(after), exc |-> "none", msg |-> <<>>,
          out |-> JDict(<< <<<<"COMMENT_USERNAME_POOLS">>, steps[6].value>>,
                           <<<<"SOCIAL_COMMENT_BLOCKS">>, Dumps(steps[2].value)>>,
                           <<<<"SOCIAL_COMMENT_SETS">>, Dumps(steps[3].value)>>,
                           <<<<"SOCIAL_EMOJI_PRESETS">>, Dumps(steps[1].value)>>,
                           <<<<"SOCIAL_PROFILES">>, Dumps(steps[4].value)>>,
                           <<<<"SOCIAL_HEROINE_PROFILE">>, Dumps(steps[5].value)>> >>)]

\* faulty variant of the type name: the type that was asked for
TypeNameWanted(v) == "dict"

\* type(v).__name__
TypeName(v) ==
    CASE v[1] = "null" -> "NoneType"
      [] OTHER -> v[1]

\* export_to_js(data) : the exported module, or the exception that escapes
\* (the text of the TypeError of the root check is kept, the texts of the
\* others are not), and data as the call leaves it
export_to_js(data_) ==
    IF ~IsDict(data_)
    THEN [data |-> data_, exc |-> "TypeError",
          msg |-> <<"export_to_js: data doit etre un dict, recu ", TypeName(data_)>>,
          out |-> JNull]
    ELSE
    LET d == data_[2]
        profiles == OrElse(Get(d, K_profiles, EmptyDict), EmptyDict)
        heroine == OrElse(Get(d, K_heroine, EmptyDict), JDict(<< <<K_posts, EmptyDict>> >>))
        r1 == ReadSection(d, K_usernames)
        r2 == ReadSection(r1.data, K_commentBlocks)
        r3 == ReadSection(r2.data, K_commentSets)
        r4 == ReadSection(r3.data, K_emojiPresets)
        ps == SortedItems(r4.value)
        presets == Collect(r4.value, ps, [i \in DOMAIN ps |-> CleanPreset(ps[i][2])])
        after == IF Has(r4.data, K_emojiPresets) /\ IsDict(At(r4.data, K_emojiPresets))
                    /\ Truthy(At(r4.data, K_emojiPresets))
                 THEN Put(r4.data, K_emojiPresets, PresetsAfterClean(r4.value))
                 ELSE r4.data
        bs == SortedItems(r2.value)
        blocks == Collect(r2.value, bs, [i \in DOMAIN bs |-> CleanBlock(bs[i][2])])
        ss == SortedItems(r3.value)
        sets == Collect(r3.value, ss, [i \in DOMAIN ss |-> CleanSet(ss[i][2])])
        fs == SortedItems(profiles)
        exported_profiles ==
            Collect(profiles, fs,
                    [i \in DOMAIN fs |-> export_profile(OrElse(fs[i][2], EmptyDict))])
        exported_heroine == export_profile(heroine)
        pools == export_username_pools(r1.value)
    IN
    ExportedModule(after,
                   <<presets, blocks, sets, exported_profiles, exported_heroine, pools>>)

(***************************************************************************)
(* pages : the delete handlers of the three list pages.                    *)
(***************************************************************************)
\* PageComments._set_dirty, PageUsernames._set_dirty, PageEmoji._set_dirty
page_set_dirty(self) == Emit(mark_dirty(self), "dataChanged", FALSE)

\* faulty variant of the pop: the whole section is emptied
PopAll(self, section, key) ==
    Outcome([self EXCEPT !.data =
                JDict(Put(SetDefault(self.data[2], section, EmptyDict), section, EmptyDict))],
            "None")

\* self.state.data.setdefault(section, {}).pop(key, None)
PopKey(self, section, key) ==
    LET d0 == SetDefault(self.data[2], section, EmptyDict)
        sec == At(d0, section)
    IN IF IsDict(sec)
       THEN Outcome([self EXCEPT !.data = JDict(Put(d0, section, JDict(Without(sec[2], key))))],
                    "None")
       ELSE Outcome([self EXCEPT !.data = JDict(d0)],
                    IF IsList(sec) THEN "TypeError" ELSE "AttributeError")

\* PageComments._delete_set, sid the selected row, answer the dialog's button
delete_set(self, sid, answer) ==
    IF sid = <<>> \/ answer # "Yes" THEN Outcome(self, "None")
    ELSE LET o == PopKey(self, K_commentSets, sid) IN
         IF o.ret # "None" THEN o ELSE Outcome(page_set_dirty(o.self), "None")

\* PageUsernames._delete_category
delete_category(self, cat, answer) ==
    IF cat = <<>> \/ answer # "Yes" THEN Outcome(self, "None")
    ELSE LET o == PopKey(self, K_usernames, cat) IN
         IF o.ret # "None" THEN o ELSE Outcome(page_set_dirty(o.self), "None")

DigitValue(c) == (CHOOSE i \in DOMAIN DigitChars : DigitChars[i] = c) - 1

RECURSIVE ParseDigits(_, _)
ParseDigits(s, acc) ==
    IF s = <<>> THEN acc ELSE ParseDigits(Tail(s), 10 * acc + DigitValue(Head(s)))

\* PageEmoji._to_int(str(x), 0)
to_int(x) ==
    CASE IsInt(x) -> x[2]
      [] IsStr(x) ->
            LET s == Strip(x[2])
                body == IF s # <<>> /\ Head(s) \in {"-", "+"} THEN Tail(s) ELSE s
            IN IF body # <<>> /\ \A i \in DOMAIN body : IsDigit(body[i])
               THEN IF Head(s) = "-" THEN 0 - ParseDigits(body, 0) ELSE ParseDigits(body, 0)
               ELSE 0
      [] OTHER -> 0

\* the ids of _refresh_list : sorted(presets.items(), key=order), a stable sort
RECURSIVE OrderedIds(_)
OrderedIds(pairs) ==
    IF pairs = <<>> THEN <<>>
    ELSE LET key(i) == to_int(Get(pairs[i][2][2], K_order, JInt(0)))
             m == CHOOSE i \in DOMAIN pairs :
                    \A j \in DOMAIN pairs :
                        key(i) < key(j) \/ (key(i) = key(j) /\ i <= j)
         IN <<pairs[m][1]>> \o OrderedIds(Without(pairs, pairs[m][1]))

\* faulty variant of _rebuild_orders: the rows are counted from one
RECURSIVE rebuild_from_one(_, _, _)
rebuild_from_one(presets, ids, i) ==
    IF i > Len(ids) THEN presets
    ELSE rebuild_from_one(
            IF Has(presets, ids[i])
            THEN Put(presets, ids[i], JDict(Put(At(presets, ids[i])[2], K_order, JInt(i))))
            ELSE presets,
            ids, i + 1)

\* PageEmoji._rebuild_orders, ids the rows of the list widget
RECURSIVE rebuild_orders(_, _, _)
rebuild_orders(presets, ids, i) ==
    IF i > Len(ids) THEN presets
    ELSE rebuild_orders(
            IF Has(presets, ids[i])
            THEN Put(presets, ids[i], JDict(Put(At(presets, ids[i])[2], K_order, JInt(i - 1))))
            ELSE presets,
            ids, i + 1)

\* PageEmoji._delete_preset
delete_preset(self, pid, answer) ==
    IF pid = <<>> \/ answer # "Yes" THEN Outcome(self, "None")
    ELSE LET o == PopKey(self, K_emojiPresets, pid) IN
         IF o.ret # "None" THEN o
         ELSE LET presets == At(o.self.data[2], K_emojiPresets)[2] IN
              IF \E i \in DOMAIN presets : ~IsDict(presets[i][2])
              THEN Outcome(o.self, "AttributeError")
              ELSE LET rebuilt == rebuild_orders(presets, OrderedIds(presets), 1)
                       s1 == [o.self EXCEPT !.data =
                                JDict(Put(o.self.data[2], K_emojiPresets, JDict(rebuilt)))]
                   IN Outcome(page_set_dirty(s1), "None")

(***************************************************************************)
(* Inputs: identifiers, names as a caller types them, stored references,   *)
(* malformed values, and the documents a load can bring in.                *)
(***************************************************************************)
Alphabet == <<"a", "b", "c", "d">>
Ids == {<<Alphabet[i]>> : i \in 1..NumLetters}
IdA == <<Alphabet[1]>>
IdB == <<Alphabet[2]>>

Blanks(n) == [i \in 1..n |-> " "]

\* a name as the caller types it: bare, or with MaxPad blanks before or after
Names ==
    (Ids \cup {<<>>})
    \cup {Blanks(MaxPad) \o c : c \in Ids \cup {<<>>}}
    \cup {c \o Blanks(MaxPad) : c \in Ids \cup {<<>>}}

\* a field left out of a dict literal
Absent == <<"absent">>

\* a dict literal without its Absent members
RECURSIVE Fields(_)
Fields(pairs) ==
    IF pairs = <<>> THEN <<>>
    ELSE IF Head(pairs)[2] = Absent THEN Fields(Tail(pairs))
    ELSE <<Head(pairs)>> \o Fields(Tail(pairs))

Obj(pairs) == JDict(Fields(pairs))

\* what a reference field may hold
RefVals == {Absent, JStr(<<>>), JStr(<<" ">>)} \cup {JStr(x) : x \in Ids}

\* what the public post and the heroine post hold in a loaded document
RefPairs == {<<r, Absent>> : r \in RefVals} \cup {<<JStr(IdA), r>> : r \in RefVals}

\* values of the wrong type, falsy and truthy
Junk == {JNull, JList(<<>>), JList(<<JStr(IdA)>>), JStr(IdA), JInt(7)}

Post(cs, ep) == Obj(<< <<K_emojiPreset, ep>>, <<K_commentsSet, cs>> >>)

Profile(posts) ==
    Obj(<< <<<<"defaultDisplayName">>, JStr(<<"n">>)>>, <<K_posts, posts>> >>)

OnePost(key, post) == JDict(<< <<key, post>> >>)

Preset(order) ==
    Obj(<< <<K_order, order>>,
           <<<<"up">>, JDict(<< <<<<"min">>, JInt(1)>>, <<<<"max">>, JInt(2)>> >>)>> >>)

Block(pool) == Obj(<< <<K_usernamePool, pool>>, <<K_comments, JList(<<JStr(<<"t">>)>>)>> >>)

\* the section choices of the loaded documents: missing, empty, one key, two keys
PoolsChoices ==
    {Absent, EmptyDict,
     JDict(<< <<IdA, JList(<<JStr(<<"n">>)>>)>> >>),
     JDict(<< <<IdA, JList(<<JStr(<<"n">>), JStr(<<>>)>>)>>, <<IdB, JList(<<>>)>> >>)}

BlocksChoices ==
    {EmptyDict, JDict(<< <<IdA, JList(<<JStr(<<"t">>)>>)>> >>),
     JDict(<< <<IdA, Block(JStr(IdA))>>, <<IdB, Block(JStr(IdB))>> >>)}
    \cup {JDict(<< <<IdA, Block(r)>> >>) : r \in RefVals}

SetsChoices ==
    {Absent, EmptyDict,
     JDict(<< <<IdA, JList(<<JStr(IdA)>>)>> >>),
     JDict(<< <<IdA, JList(<<>>)>>, <<IdB, JList(<<JStr(IdA), JStr(<<>>)>>)>> >>),
     JDict(<< <<<<" ">>, JList(<<>>)>> >>)}

PresetsChoices ==
    {Absent, EmptyDict,
     JDict(<< <<IdA, Preset(JInt(0))>> >>),
     JDict(<< <<IdB, Preset(JInt(1))>>, <<IdA, Preset(JInt(0))>> >>)}

Doc(profiles, heroine, usernames, blocks, sets, presets) ==
    Obj(<< <<K_profiles, profiles>>, <<K_heroine, heroine>>, <<K_usernames, usernames>>,
           <<K_commentBlocks, blocks>>, <<K_commentSets, sets>>,
           <<K_emojiPresets, presets>> >>)

PublicOf(post) == JDict(<< <<<<"p">>, Profile(OnePost(<<"x">>, post))>> >>)
HeroineOf(post) == Profile(OnePost(<<"h">>, post))

\* documents that vary the username pools and the blocks that name them
PoolDocs ==
    {Doc(EmptyDict, HeroineOf(Post(Absent, Absent)), u, b, EmptyDict, EmptyDict) :
        <<u, b>> \in PoolsChoices \X BlocksChoices}

\* documents that vary the comment sets and the posts that name them
SetDocs ==
    {Doc(PublicOf(Post(r1, Absent)), HeroineOf(Post(r2, Absent)),
         EmptyDict, EmptyDict, s, EmptyDict) :
        <<s, r1, r2>> \in {<<s, x[1], x[2]>> : <<s, x>> \in SetsChoices \X RefPairs}}

\* documents that vary the emoji presets and the posts that name them
PresetDocs ==
    {Doc(PublicOf(Post(Absent, r1)), HeroineOf(Post(Absent, r2)),
         EmptyDict, EmptyDict, EmptyDict, e) :
        <<e, r1, r2>> \in {<<e, x[1], x[2]>> : <<e, x>> \in PresetsChoices \X RefPairs}}

\* a document with every section in use
FullDoc ==
    Doc(PublicOf(Post(JStr(IdA), JStr(IdA))), HeroineOf(Post(JStr(IdA), JStr(IdB))),
        JDict(<< <<IdA, JList(<<JStr(<<"n">>)>>)>> >>),
        JDict(<< <<IdA, Block(JStr(IdA))>> >>),
        JDict(<< <<IdA, JList(<<JStr(IdA)>>)>> >>),
        JDict(<< <<IdA, Preset(JInt(0))>> >>))

\* a document with most sections missing
SparseDoc ==
    Doc(PublicOf(Post(Absent, JStr(IdA))), Absent, Absent, Absent, Absent,
        JDict(<< <<IdB, Preset(JInt(1))>>, <<IdA, Preset(Absent)>> >>))

\* a document whose posts name a comment set and an emoji preset
PostsDoc ==
    Doc(PublicOf(Post(JStr(IdA), JStr(IdA))), HeroineOf(Post(JStr(IdA), JStr(IdA))),
        EmptyDict, EmptyDict,
        JDict(<< <<IdA, JList(<<>>)>> >>),
        JDict(<< <<IdA, Preset(JInt(0))>> >>))

\* a document whose block names a username pool
BlocksDoc ==
    Doc(EmptyDict, HeroineOf(Post(Absent, Absent)),
        JDict(<< <<IdA, JList(<<JStr(<<"n">>)>>)>> >>),
        JDict(<< <<IdA, Block(JStr(IdA))>> >>),
        EmptyDict, EmptyDict)

\* these documents with one member replaced by the value j
MalformedWith(j) ==
    {JDict(Put(PostsDoc[2], k, j)) :
        k \in {K_profiles, K_heroine, K_commentSets, K_emojiPresets}}
    \cup
    {JDict(Put(BlocksDoc[2], k, j)) : k \in {K_usernames, K_commentBlocks}}
    \cup
    {JDict(Put(PostsDoc[2], K_profiles, JDict(<< <<<<"p">>, j>> >>))),
     JDict(Put(PostsDoc[2], K_profiles,
               JDict(<< <<<<"p">>, Profile(OnePost(<<"x">>, Post(JStr(IdA), JStr(IdA))))>>,
                        <<<<"q">>, j>> >>))),
     JDict(Put(PostsDoc[2], K_profiles, JDict(<< <<<<"p">>, Profile(j)>> >>))),
     JDict(Put(PostsDoc[2], K_profiles, PublicOf(j))),
     JDict(Put(PostsDoc[2], K_heroine, Profile(j))),
     JDict(Put(PostsDoc[2], K_heroine, HeroineOf(j))),
     JDict(Put(PostsDoc[2], K_commentSets, JDict(<< <<IdA, j>> >>))),
     JDict(Put(PostsDoc[2], K_emojiPresets, JDict(<< <<IdA, j>> >>))),
     JDict(Put(BlocksDoc[2], K_usernames, JDict(<< <<IdA, j>> >>))),
     JDict(Put(BlocksDoc[2], K_commentBlocks, JDict(<< <<IdA, j>> >>)))}

\* documents with a value of the wrong type somewhere
MalformedDocs == UNION {MalformedWith(j) : j \in Junk}

Docs == PoolDocs \cup SetDocs \cup PresetDocs \cup {FullDoc, SparseDoc, JDict(<<>>)}
        \cup MalformedDocs

\* what set_data may be handed: a document, or something that is no mapping
RawValues == Docs \cup {JNull, JList(<<>>), JStr(IdA)}

Paths == {JStr(<<"db.json">>)}

(***************************************************************************)
(* The state machine.  A call runs to its end in one step and leaves what  *)
(* it returned in call; the event loop then takes over again.              *)
(***************************************************************************)
Self == [data |-> data, current_path |-> current_path, is_dirty |-> is_dirty,
         emitted |-> <<>>]

NoCall == [op |-> "none", args |-> <<>>, ret |-> "None", value |-> <<>>,
           pre_data |-> JNull, pre_dirty |-> FALSE]

Init ==
    /\ data = default_data
    /\ is_dirty = FALSE
    /\ current_path = JNull
    /\ pc = "idle"
    /\ call = NoCall
    /\ emitted = <<>>

\* the object is left as the call left it
Returned(o, op, args, keep) ==
    /\ data' = o.self.data
    /\ is_dirty' = o.self.is_dirty
    /\ current_path' = o.self.current_path
    /\ emitted' = o.self.emitted
    /\ pc' = "returned"
    /\ call' = [op |-> op, args |-> args, ret |-> o.ret, value |-> o.value,
                pre_data |-> IF keep THEN data ELSE JNull, pre_dirty |-> is_dirty]

SetData ==
    /\ pc = "idle"
    /\ \E raw \in RawValues, path \in Paths :
          Returned(Outcome(set_data(Self, raw, path), "None"), "set_data",
                   <<raw, path>>, FALSE)

RenameUsernamePool ==
    /\ pc = "idle"
    /\ \E old \in Names, new \in Names :
          Returned(rename_username_pool(Self, old, new), "rename_username_pool",
                   <<old, new>>, TRUE)

RenameCommentSet ==
    /\ pc = "idle"
    /\ \E old \in Names, new \in Names :
          Returned(rename_comment_set(Self, old, new), "rename_comment_set",
                   <<old, new>>, TRUE)

RenameEmojiPreset ==
    /\ pc = "idle"
    /\ \E old \in Names, new \in Names :
          Returned(rename_emoji_preset(Self, old, new), "rename_emoji_preset",
                   <<old, new>>, TRUE)

\* the keys a list page can have selected
Selectable(section) ==
    IF Has(data[2], section) /\ IsDict(At(data[2], section))
    THEN KeySet(At(data[2], section)[2])
    ELSE {}

Answers == {"Yes", "No"}

DeleteSet ==
    /\ pc = "idle"
    /\ \E sid \in Selectable(K_commentSets), answer \in Answers :
          Returned(delete_set(Self, sid, answer), "delete_set", <<sid, answer>>, TRUE)

DeleteCategory ==
    /\ pc = "idle"
    /\ \E cat \in Selectable(K_usernames), answer \in Answers :
          Returned(delete_category(Self, cat, answer), "delete_category",
                   <<cat, answer>>, TRUE)

DeletePreset ==
    /\ pc = "idle"
    /\ \E pid \in Selectable(K_emojiPresets), answer \in Answers :
          Returned(delete_preset(Self, pid, answer), "delete_preset", <<pid, answer>>, TRUE)

\* PageValidate.run_check
RunCheck ==
    /\ pc = "idle"
    /\ LET v == validate_database(data[2])
       IN Returned(Gives([Self EXCEPT !.data = JDict(v.data)], "list", v.issues),
                   "validate_database", <<>>, TRUE)

\* what a caller of export_to_js gets: the module, or the exception with its
\* text as str(e) and the traceback show it
Exported(self, js) ==
    IF js.exc = "none" THEN Gives(self, "str", js.out)
    ELSE Gives(self, js.exc, JStr(<<js.exc, ": ">> \o js.msg))

\* AppWindow.action_export_js, js what export_to_js(self.state.data) gives
action_export_js(self, js) == Exported([self EXCEPT !.data = js.data], js)

ExportJs ==
    /\ pc = "idle"
    /\ Returned(action_export_js(Self, export_to_js(data)), "export_to_js", <<>>, TRUE)

EventLoop ==
    /\ pc = "returned"
    /\ pc' = "idle"
    /\ call' = NoCall
    /\ emitted' = <<>>
    /\ UNCHANGED <<data, is_dirty, current_path>>

Next ==
    \/ SetData
    \/ RenameUsernamePool
    \/ RenameCommentSet
    \/ RenameEmojiPreset
    \/ DeleteSet
    \/ DeleteCategory
    \/ DeletePreset
    \/ RunCheck
    \/ ExportJs
    \/ EventLoop

Spec == Init /\ [][Next]_vars


(***************************************************************************)
(* Properties of the renames.  In a state with pc = "returned", call holds *)
(* the call that has just come back: its operation, its arguments, what it *)
(* gave back and the object as it was before the call.                     *)
(***************************************************************************)
Renames == {"rename_username_pool", "rename_comment_set", "rename_emoji_preset"}
PostRenames == {"rename_comment_set", "rename_emoji_preset"}

\* the section a rename moves a key in, and the field that refers to the key
SectionOf(op) ==
    CASE op \in {"rename_username_pool", "delete_category"} -> K_usernames
      [] op \in {"rename_comment_set", "delete_set"} -> K_commentSets
      [] OTHER -> K_emojiPresets

FieldOf(op) ==
    CASE op \in {"rename_username_pool", "delete_category"} -> K_usernamePool
      [] op \in {"rename_comment_set", "delete_set"} -> K_commentsSet
      [] OTHER -> K_emojiPreset

RenameReturned == pc = "returned" /\ call.op \in Renames

\* the two names of the returned rename, trimmed
OldName == Strip(call.args[1])
NewName == Strip(call.args[2])

\* the section before the call and now (Absent when the document has none)
SectionBefore == Get(call.pre_data[2], SectionOf(call.op), Absent)
SectionNow == Get(data[2], SectionOf(call.op), Absent)

\* k is a key of the section sec
IsKey(sec, k) == IsDict(sec) /\ Has(sec[2], k)

\* the trimmed names are non-empty and different, old is a key, new is not
RenameApplies ==
    /\ OldName # <<>> /\ NewName # <<>> /\ OldName # NewName
    /\ IsKey(SectionBefore, OldName)
    /\ ~IsKey(SectionBefore, NewName)

\* one of the five reasons to refuse a rename
RenameRefused ==
    \/ OldName = <<>> \/ NewName = <<>> \/ OldName = NewName
    \/ ~IsKey(SectionBefore, OldName)
    \/ IsKey(SectionBefore, NewName)

\* the key has moved: old is gone, new holds what old held
KeyMoved(sec) ==
    /\ IsDict(sec)
    /\ ~Has(sec[2], OldName)
    /\ Has(sec[2], NewName)
    /\ At(sec[2], NewName) = At(SectionBefore[2], OldName)

\* v is a mapping, or one of the empty values read as an empty mapping
MappingOrEmpty(v) == IsDict(OrElse(v, EmptyDict))

\* a profile whose posts member can be walked
HoldsPosts(prof) ==
    /\ MappingOrEmpty(prof)
    /\ MappingOrEmpty(Get(OrElse(prof, EmptyDict)[2], K_posts, EmptyDict))

\* a document in which profiles, every profile, the heroine and every posts
\* member is a mapping (or empty)
PostsWalkable(d) ==
    LET profiles == OrElse(Get(d[2], K_profiles, EmptyDict), EmptyDict) IN
    /\ IsDict(profiles)
    /\ \A i \in DOMAIN profiles[2] : HoldsPosts(profiles[2][i][2])
    /\ HoldsPosts(Get(d[2], K_heroine, EmptyDict))

\* a document whose commentBlocks member is a mapping (or empty)
BlocksWalkable(d) == MappingOrEmpty(Get(d[2], K_commentBlocks, EmptyDict))

\* the posts of a document, each with its path: public profiles, then heroine
AllPosts(d) == validator_iter_all_posts(d[2])

\* the comment blocks of a document
AllBlocks(d) ==
    LET blocks == Get(d[2], K_commentBlocks, EmptyDict)
    IN IF IsDict(blocks) THEN blocks[2] ELSE <<>>

\* x holds the name n in its field
RefersTo(x, field, n) == IsDict(x) /\ Has(x[2], field) /\ At(x[2], field) = JStr(n)

\* x names another thing than n in its field
NamesOther(x, field, n) ==
    /\ IsDict(x) /\ Has(x[2], field)
    /\ IsStr(At(x[2], field)) /\ At(x[2], field)[2] \notin {<<>>, n}

\* x as the rename must leave it
Renamed(x, field) ==
    IF RefersTo(x, field, OldName) THEN JDict(Put(x[2], field, JStr(NewName))) ELSE x

\* the pairs after are the pairs before, with every reference to old rewritten
AllRenamed(before, after, field) ==
    /\ Len(after) = Len(before)
    /\ \A i \in DOMAIN before :
          after[i] = <<before[i][1], Renamed(before[i][2], field)>>

\* C1: rename_comment_set and rename_emoji_preset, called with names whose
\* trimmed forms are non-empty and different, old a key of the section and new
\* not, on a document whose posts can be walked: the call returns True, the
\* section has lost old and holds new with the value old had, every post that
\* named old names new, and every other post is as it was.
C1_RenamePostReferences ==
    (RenameReturned /\ call.op \in PostRenames /\ RenameApplies
        /\ PostsWalkable(call.pre_data))
    => /\ call.ret = "True"
       /\ KeyMoved(SectionNow)
       /\ AllRenamed(AllPosts(call.pre_data), AllPosts(data), FieldOf(call.op))

\* a comment set was renamed while one post named it and another post named
\* another set
C1_Witness ==
    /\ RenameReturned /\ call.op = "rename_comment_set" /\ RenameApplies
    /\ call.ret = "True"
    /\ \E i \in DOMAIN AllPosts(call.pre_data) :
          RefersTo(AllPosts(call.pre_data)[i][2], K_commentsSet, OldName)
    /\ \E i \in DOMAIN AllPosts(call.pre_data) :
          NamesOther(AllPosts(call.pre_data)[i][2], K_commentsSet, OldName)

\* the members of the document that a pool rename has no business with
OutsidePools == {K_profiles, K_heroine, K_commentSets, K_emojiPresets}

\* C2: rename_username_pool, called with names whose trimmed forms are
\* non-empty and different, old a key of usernames and new not, on a document
\* whose commentBlocks can be walked: the call returns True, usernames has lost
\* old and holds new with the list old had, every block that named old names
\* new, every other block is as it was, and no post, comment set or emoji
\* preset has changed.
C2_RenamePoolReferences ==
    (RenameReturned /\ call.op = "rename_username_pool" /\ RenameApplies
        /\ BlocksWalkable(call.pre_data))
    => /\ call.ret = "True"
       /\ KeyMoved(SectionNow)
       /\ AllRenamed(AllBlocks(call.pre_data), AllBlocks(data), K_usernamePool)
       /\ \A k \in OutsidePools :
             Get(data[2], k, Absent) = Get(call.pre_data[2], k, Absent)

\* a pool was renamed while one block named it, another block named another
\* pool, and the document held a post
C2_Witness ==
    /\ RenameReturned /\ call.op = "rename_username_pool" /\ RenameApplies
    /\ call.ret = "True"
    /\ \E i \in DOMAIN AllBlocks(call.pre_data) :
          RefersTo(AllBlocks(call.pre_data)[i][2], K_usernamePool, OldName)
    /\ \E i \in DOMAIN AllBlocks(call.pre_data) :
          NamesOther(AllBlocks(call.pre_data)[i][2], K_usernamePool, OldName)
    /\ AllPosts(call.pre_data) # <<>>

\* C3: a rename that has one of the five reasons to refuse (names equal after
\* trimming, old empty, new empty, old not a key, new already a key) returns
\* False and leaves the whole document as it was, whatever the document holds
\* and whether or not it has the section.
C3_RefusalLeavesDocument ==
    (RenameReturned /\ RenameRefused)
    => /\ call.ret = "False"
       /\ data = call.pre_data

\* no place that the rename rewrites still names old
NoReferenceLeft(d) ==
    IF call.op = "rename_username_pool"
    THEN \A i \in DOMAIN AllBlocks(d) : ~RefersTo(AllBlocks(d)[i][2], K_usernamePool, OldName)
    ELSE \A i \in DOMAIN AllPosts(d) : ~RefersTo(AllPosts(d)[i][2], FieldOf(call.op), OldName)

\* C4: every rename, on every document that holds the section (malformed
\* values included; the document without the section is the case of C3), ends
\* in one of two ways: it returns True with the key moved and no reference to
\* old left, or it returns False with the document as it was.  It never raises.
C4_AllOrNothing ==
    (RenameReturned /\ Has(call.pre_data[2], SectionOf(call.op)))
    => \/ /\ call.ret = "True"
          /\ KeyMoved(SectionNow)
          /\ NoReferenceLeft(data)
       \/ /\ call.ret = "False"
          /\ data = call.pre_data

\* the dataChanged signals of the returned call
Changes == SelectSeq(emitted, LAMBDA e : e.signal = "dataChanged")

\* C5: a rename that returns True has emitted dataChanged exactly once, during
\* the call; a slot run at that moment sees the document as the call leaves it
\* (key moved, no reference to old left, the issues validate gives are those
\* of the final document) and sees is_dirty true.
C5_ChangedOnceWhenDone ==
    (RenameReturned /\ call.ret = "True")
    => /\ Len(Changes) = 1
       /\ Changes[1].data = data
       /\ KeyMoved(Get(Changes[1].data[2], SectionOf(call.op), Absent))
       /\ NoReferenceLeft(Changes[1].data)
       /\ validate_database(Changes[1].data[2]).issues = validate_database(data[2]).issues
       /\ Changes[1].is_dirty = TRUE
       /\ is_dirty = TRUE

\* a rename succeeded on a clean document that had a reference to rewrite
C5_Witness ==
    /\ RenameReturned /\ call.ret = "True"
    /\ call.pre_dirty = FALSE
    /\ ~NoReferenceLeft(call.pre_data)

\* C6: a rename that returns False has emitted neither dataChanged nor
\* dirtyChanged and leaves is_dirty at the value it had before the call.
C6_SilentRefusal ==
    (RenameReturned /\ call.ret = "False")
    => /\ emitted = <<>>
       /\ is_dirty = call.pre_dirty

\* a rename to a name already in use was refused on a clean document
C6_Witness ==
    /\ RenameReturned /\ call.ret = "False"
    /\ call.pre_dirty = FALSE
    /\ OldName # <<>> /\ IsKey(SectionBefore, OldName) /\ IsKey(SectionBefore, NewName)
    /\ OldName # NewName

(***************************************************************************)
(* Properties of the deletions, the validator and the exporter.            *)
(***************************************************************************)
Deletes == {"delete_set", "delete_category", "delete_preset"}

\* a deletion that was confirmed and ran to its end
DeleteDone ==
    /\ pc = "returned" /\ call.op \in Deletes
    /\ call.args[2] = "Yes" /\ call.ret = "None"

DeletedKey == call.args[1]

\* the paths of the fields that name the key n, in the places the section is
\* referred to from
ReferencePaths(d, op, n) ==
    IF op = "delete_category"
    THEN {<<"commentBlocks.">> \o AllBlocks(d)[i][1] \o <<".usernamePool">> :
            i \in {j \in DOMAIN AllBlocks(d) :
                        RefersTo(AllBlocks(d)[j][2], K_usernamePool, n)}}
    ELSE {AllPosts(d)[i][1]
            \o (IF op = "delete_set" THEN <<".commentsSet">> ELSE <<".emojiPreset">>) :
            i \in {j \in DOMAIN AllPosts(d) : RefersTo(AllPosts(d)[j][2], FieldOf(op), n)}}

\* how many ERROR issues carry the path
ErrorsAt(issues, path) ==
    Cardinality({i \in DOMAIN issues : issues[i].level = "ERROR" /\ issues[i].path = path})

\* two values of a section are the same, the "order" field of an emoji preset
\* left aside
SameEntry(a, b) ==
    IF call.op = "delete_preset" /\ IsDict(a) /\ IsDict(b)
    THEN Without(a[2], K_order) = Without(b[2], K_order)
    ELSE a = b

\* C7 as stated: a confirmed deletion of a comment set, a username pool or an
\* emoji preset removes that key and no other from the section, leaves every
\* commentsSet, emojiPreset and usernamePool with its value, and validate then
\* gives exactly one ERROR for each reference that named the deleted key.
C7_DeletionAsStated ==
    DeleteDone
    => /\ IsDict(SectionNow)
       /\ KeysOf(SectionNow[2]) = KeysOf(Without(SectionBefore[2], DeletedKey))
       /\ AllPosts(data) = AllPosts(call.pre_data)
       /\ AllBlocks(data) = AllBlocks(call.pre_data)
       /\ \A p \in ReferencePaths(call.pre_data, call.op, DeletedKey) :
             ErrorsAt(validate_database(data[2]).issues, p) = 1

\* C7: a confirmed deletion removes that key and no other from the section,
\* the remaining entries keep their values (but for the order field of the
\* remaining emoji presets, which delete_preset renumbers), every commentsSet,
\* emojiPreset and usernamePool keeps its value, and validate then gives
\* exactly one ERROR for each reference that named the deleted key, unless the
\* key is blank, in which case it gives none for it.
C7_DeletionLeavesReferences ==
    DeleteDone
    => /\ IsDict(SectionNow)
       /\ KeysOf(SectionNow[2]) = KeysOf(Without(SectionBefore[2], DeletedKey))
       /\ \A k \in KeySet(SectionNow[2]) :
             SameEntry(At(SectionNow[2], k), At(SectionBefore[2], k))
       /\ AllPosts(data) = AllPosts(call.pre_data)
       /\ AllBlocks(data) = AllBlocks(call.pre_data)
       /\ \A p \in ReferencePaths(call.pre_data, call.op, DeletedKey) :
             ErrorsAt(validate_database(data[2]).issues, p)
                = IF Strip(DeletedKey) # <<>> THEN 1 ELSE 0

\* a comment set that a post named was deleted while the section held another
\* set, and validate reports the post
C7_Witness ==
    /\ DeleteDone /\ call.op = "delete_set"
    /\ Strip(DeletedKey) # <<>>
    /\ SectionNow # EmptyDict
    /\ ReferencePaths(call.pre_data, call.op, DeletedKey) # {}
    /\ \A p \in ReferencePaths(call.pre_data, call.op, DeletedKey) :
          ErrorsAt(validate_database(data[2]).issues, p) = 1

ValidateReturned == pc = "returned" /\ call.op = "validate_database"

\* the section a post field refers to
TargetOf(field) == IF field = K_emojiPreset THEN K_emojiPresets ELSE K_commentSets

PathEnd(field) == IF field = K_emojiPreset THEN <<".emojiPreset">> ELSE <<".commentsSet">>

PostFields == {K_emojiPreset, K_commentsSet}

\* the post holds in the field a string that is no key of the section; with
\* trimmed, a string of blanks counts as empty
Dangling(d, post, field, trimmed) ==
    /\ Has(post[2], field)
    /\ IsStr(At(post[2], field))
    /\ (IF trimmed THEN Strip(At(post[2], field)[2]) ELSE At(post[2], field)[2]) # <<>>
    /\ ~IsKey(Get(d[2], TargetOf(field), Absent), At(post[2], field)[2])

\* the paths of the dangling post fields of a document
DanglingPaths(d, trimmed) ==
    {AllPosts(d)[x[1]][1] \o PathEnd(x[2]) :
        x \in {y \in (DOMAIN AllPosts(d)) \X PostFields :
                    Dangling(d, AllPosts(d)[y[1]][2], y[2], trimmed)}}

\* the issues whose path is in a post
PostIssuesIn(issues) ==
    SelectSeq(issues, LAMBDA i : Head(i.path) \in {"profiles.", "heroine.posts."})

\* the issues are one ERROR for each of the paths and nothing else
OneErrorEach(issues, paths) ==
    /\ \A i \in DOMAIN issues : issues[i].level = "ERROR"
    /\ {issues[i].path : i \in DOMAIN issues} = paths
    /\ Len(issues) = Cardinality(paths)

IsStrList(v) == IsList(v) /\ \A i \in DOMAIN v[2] : IsStr(v[2][i])

\* v has the type the data model gives to the values of a kind
IsA(v, kind) ==
    CASE kind = "pool" -> IsStrList(v)
      [] kind = "set" -> IsStrList(v)
      [] kind = "list" -> IsList(v)
      [] kind = "profile" ->
            /\ IsDict(v)
            /\ IsDict(Get(v[2], K_posts, EmptyDict))
            /\ \A i \in DOMAIN Get(v[2], K_posts, EmptyDict)[2] :
                  IsDict(Get(v[2], K_posts, EmptyDict)[2][i][2])
      [] OTHER -> IsDict(v)

\* v is a mapping whose values all are of the kind
AllValues(v, kind) == IsDict(v) /\ \A i \in DOMAIN v[2] : IsA(v[2][i][2], kind)

\* every section of the document has the type of the data model
WellTyped(d) ==
    /\ AllValues(Get(d[2], K_usernames, EmptyDict), "pool")
    /\ AllValues(Get(d[2], K_commentBlocks, EmptyDict), "block")
    /\ AllValues(Get(d[2], K_commentSets, EmptyDict), "set")
    /\ AllValues(Get(d[2], K_emojiPresets, EmptyDict), "preset")
    /\ AllValues(Get(d[2], K_profiles, EmptyDict), "profile")
    /\ IsA(Get(d[2], K_heroine, EmptyDict), "profile")

\* every reference of a well-typed document names a key: the pool of each
\* block, the blocks of each set, the set and the preset of each post; a field
\* left out or empty refers to nothing, an element of a set always refers
AllResolve(d) ==
    /\ \A i \in DOMAIN AllBlocks(d) :
          LET pool == Get(AllBlocks(d)[i][2][2], K_usernamePool, JStr(<<>>))
          IN IsStr(pool) /\ pool[2] # <<>>
                => IsKey(Get(d[2], K_usernames, EmptyDict), pool[2])
    /\ \A i \in DOMAIN Get(d[2], K_commentSets, EmptyDict)[2] :
          LET ids == Get(d[2], K_commentSets, EmptyDict)[2][i][2][2]
          IN \A j \in DOMAIN ids :
                IsKey(Get(d[2], K_commentBlocks, EmptyDict), ids[j][2])
    /\ DanglingPaths(d, FALSE) = {}

\* no pool holds a blank name
NoBlankName(d) ==
    \A i \in DOMAIN Get(d[2], K_usernames, EmptyDict)[2] :
        LET names == Get(d[2], K_usernames, EmptyDict)[2][i][2][2]
        IN \A j \in DOMAIN names : Strip(names[j][2]) # <<>>

C9_ReadOnly ==
    (pc = "returned" /\ call.op \in {"validate_database", "export_to_js"})
    => /\ data = call.pre_data
       /\ is_dirty = call.pre_dirty
       /\ emitted = <<>>
       /\ call.op = "validate_database"
             => validate_database(data[2]).issues = call.value

\* the export has gone through on a document that lacks a section, holds a
\* preset with an order field and a post without commentsSet
C9_Witness ==
    /\ pc = "returned" /\ call.op = "export_to_js" /\ call.ret = "str"
    /\ \E k \in {K_usernames, K_commentSets} : ~Has(data[2], k)
    /\ \E i \in DOMAIN Get(data[2], K_emojiPresets, EmptyDict)[2] :
          Has(Get(data[2], K_emojiPresets, EmptyDict)[2][i][2][2], K_order)
    /\ \E i \in DOMAIN AllPosts(data) : ~Has(AllPosts(data)[i][2][2], K_commentsSet)

\* s starts with p
StartsWith(s, p) == Len(p) <= Len(s) /\ SubSeq(s, 1, Len(p)) = p

\* the entries of the mapping v whose value is not of the kind
BadValues(v, kind) ==
    IF IsDict(v) THEN {v[2][i] : i \in {j \in DOMAIN v[2] : ~IsA(v[2][j][2], kind)}} ELSE {}

\* where a profile is malformed: the profile itself, its posts member, or one
\* of its posts
BadInProfile(prefix, prof) ==
    IF ~IsDict(prof) THEN {prefix}
    ELSE IF ~IsDict(Get(prof[2], K_posts, EmptyDict)) THEN {prefix}
    ELSE {prefix \o <<".posts.">> \o x[1] :
            x \in BadValues(Get(prof[2], K_posts, EmptyDict), "post")}

\* the places of a document that hold a value of the wrong type
MalformedPlaces(d) ==
    {<<k[1]>> : k \in {x \in {K_usernames, K_commentBlocks, K_commentSets,
                              K_emojiPresets, K_profiles, K_heroine} :
                          Has(d[2], x) /\ ~IsDict(At(d[2], x))}}
    \cup {<<"usernames.">> \o x[1] :
            x \in BadValues(Get(d[2], K_usernames, EmptyDict), "list")}
    \cup {<<"commentBlocks.">> \o x[1] :
            x \in BadValues(Get(d[2], K_commentBlocks, EmptyDict), "block")}
    \cup {<<"commentSets.">> \o x[1] :
            x \in BadValues(Get(d[2], K_commentSets, EmptyDict), "list")}
    \cup UNION {BadInProfile(<<"profiles.">> \o x[1], x[2]) :
                    x \in BadValues(Get(d[2], K_profiles, EmptyDict), "profile")}
    \cup BadInProfile(<<"heroine">>, Get(d[2], K_heroine, EmptyDict))

\* C10: validate returns a list without raising, and every place of the
\* document that holds a value of the wrong type (a section, a pool, a block,
\* a set, a profile, a posts member, a post) is named by an ERROR issue: an
\* issue whose path is the place or lies in it.
C10_MalformedReported ==
    ValidateReturned
    => /\ call.ret = "list"
       /\ \A place \in MalformedPlaces(data) :
             \E i \in DOMAIN call.value :
                /\ call.value[i].level = "ERROR"
                /\ StartsWith(call.value[i].path, place)

(***************************************************************************)
(* The module-level functions called on their own, on a value of the       *)
(* caller's choosing.                                                      *)
(***************************************************************************)
MaxSlotLen == 3

\* the characters of a timeslot: letters, a digit, the underscore, the
\* hyphen, a blank, a decorative symbol, and the two characters outside ASCII
SlotChars == {"N", "a", "2", "_", "-", " ", "*", DottedI, DotAbove}

\* the timeslots the spec gives as examples, "*" a decorative symbol
SlotExamples ==
    {<<"M", "o", "r", "n", "i", "n", "g", " ", "*">>, <<>>,
     <<"N", "I", "G", "H", "T">>, <<"-", "w", "e", "i", "r", "d", "_", "2">>}

Timeslots == SlotExamples \cup UNION {[1..n -> SlotChars] : n \in 0..MaxSlotLen}

\* what is no mapping
NonMappings == {JNull, JList(<<>>), JList(<<JStr(IdA)>>), JStr(IdA), JStr(<<>>), JInt(0), JInt(7)}

\* the emoji ranges of a post or a preset, keys out of order
Ranges == JDict(<< <<<<"up">>, MinMax(1, 2)>>, <<<<"down">>, MinMax(0, 0)>> >>)
RangesWithOrder == JDict(Append(Ranges[2], <<K_order, JInt(3)>>))

\* what the emojiPreset and the emojiOverride of a post may hold
PresetRefs ==
    {Absent, JNull, JStr(<<>>), JStr(<<" ">>), JStr(IdA), JStr(<<" ">> \o IdA \o <<" ">>)}
Overrides == {Absent, JNull, EmptyDict, Ranges, RangesWithOrder}

ExportPost(ep, eo, ts, order) ==
    Obj(<< <<<<"timeslot">>, ts>>, <<K_order, order>>, <<K_emojiPreset, ep>>,
           <<K_emojiOverride, eo>>, <<<<"description">>, JStr(<<"d">>)>> >>)

EmojiPosts == {ExportPost(ep, eo, Absent, Absent) : ep \in PresetRefs, eo \in Overrides}

OrderedProfile(order, posts) ==
    Obj(<< <<K_posts, posts>>, <<K_order, order>>,
           <<<<"defaultDisplayName">>, JStr(<<"n">>)>> >>)

TwoPosts(order) ==
    JDict(<< <<<<"y">>, ExportPost(JStr(<<" ">> \o IdB), Ranges, JStr(<<"N">>), order)>>,
             <<<<"x">>, ExportPost(Absent, RangesWithOrder, Absent, order)>> >>)

\* a document with two keys, out of order, in every mapping, the entities
\* with an order field or without
RichDoc(order) ==
    Doc(JDict(<< <<<<"q">>, OrderedProfile(order, TwoPosts(order))>>,
                 <<<<"p">>, OrderedProfile(order, TwoPosts(Absent))>> >>),
        OrderedProfile(order, TwoPosts(order)),
        JDict(<< <<IdB, JList(<<JStr(<<"n">>)>>)>>, <<IdA, JList(<<>>)>> >>),
        JDict(<< <<IdB, Block(JStr(IdB))>>, <<IdA, JList(<<JStr(<<"t">>)>>)>> >>),
        JDict(<< <<IdB, JDict(<< <<<<"blocks">>, JList(<<JStr(IdB)>>)>> >>)>>,
                 <<IdA, JList(<<JStr(IdA)>>)>> >>),
        JDict(<< <<IdB, Obj(Append(Ranges[2], <<K_order, order>>))>>,
                 <<IdA, RangesWithOrder>> >>))

\* the documents handed to the export besides those of a load
ExportDocs ==
    {Doc(PublicOf(p), HeroineOf(p), Absent, Absent, Absent, Absent) : p \in EmojiPosts}
    \cup {RichDoc(JInt(1)), RichDoc(Absent)}

\* documents with a comment block of each shape: the legacy bare list, the
\* mapping with its pool absent, empty, blank, named or of another type, its
\* comments absent, empty or several, and a member the data model does not
\* have; two keys, out of order
BlockDocs ==
    LET texts == JList(<<JStr(<<"t">>), JStr(<<"s">>), JStr(<<"t">>)>>)
        shapes ==
            {texts, JList(<<>>), JNull, JInt(7)}
            \cup {Obj(<< <<K_comments, c>>, <<K_usernamePool, pool>>, <<K_order, o>> >>) :
                    c \in {Absent, JList(<<>>), texts, JNull},
                    pool \in {Absent, JNull, JStr(<<>>), JStr(<<" ">>), JStr(IdA),
                              JStr(<<"Global">>), JInt(7)},
                    o \in {Absent, JInt(1)}}
    IN {Doc(Absent, Absent, JDict(<< <<IdA, JList(<<JStr(<<"n">>)>>)>> >>),
            JDict(<< <<IdB, b>>, <<IdA, texts>> >>), Absent, Absent) : b \in shapes}

ExportArgs == NonMappings \cup Docs \cup ExportDocs \cup BlockDocs

\* export_to_js(v)
ExportCall ==
    /\ pc = "idle"
    /\ \E v \in ExportArgs :
          Returned(Exported(Self, export_to_js(v)), "export_to_js(v)", <<v>>, TRUE)

\* _clean_timeslot(s)
CleanTimeslotCall ==
    /\ pc = "idle"
    /\ \E s \in Timeslots :
          Returned(Gives(Self, clean_timeslot(JStr(s)).exc, clean_timeslot(JStr(s)).value),
                   "clean_timeslot", <<s>>, TRUE)

\* the documents handed to the validator besides those of a load: pools,
\* blocks, sets and posts with several faults each, keys out of order, and
\* the sections replaced by values that are no mapping
ValidateDocs ==
    LET z == JStr(<<"z">>)
        pools == JDict(<< <<IdB, JList(<<JStr(<<>>), JStr(<<"n">>), JStr(<<" ">>), JInt(7)>>)>>,
                          <<IdA, JInt(7)>> >>)
        blocks == JDict(<< <<IdB, Block(z)>>, <<<<" ">>, Block(JStr(IdB))>>,
                           <<IdA, JList(<<JStr(<<"t">>)>>)>> >>)
        sets == JDict(<< <<IdB, JList(<<z, JInt(7), JStr(IdB), JStr(<<>>), JStr(<<" ">>),
                                        JNull, JList(<<>>), EmptyDict>>)>>,
                         <<IdA, JStr(IdA)>>,
                         <<<<"c">>, JNull>>,
                         <<<<"d">>, JDict(<< <<IdA, JStr(IdA)>> >>)>>,
                         <<<<"e">>, JList(<<JStr(IdB), JStr(IdA)>>)>> >>)
        public == JDict(<< <<<<"q">>, Profile(JDict(<< <<<<"y">>, Post(z, z)>>,
                                                       <<<<"x">>, Post(z, Absent)>> >>))>>,
                           <<<<"p">>, Profile(OnePost(<<"x">>, Post(Absent, z)))>> >>)
    IN {Doc(public, HeroineOf(Post(z, z)), u, b, s, e) :
            u \in {pools, JInt(7), Absent},
            b \in {blocks, JInt(7), EmptyDict},
            s \in {sets, JInt(7)},
            e \in {EmptyDict, JInt(7), JNull}}
       \cup Docs

\* validate_database(v)
ValidateCall ==
    /\ pc = "idle"
    /\ \E v \in ValidateDocs :
          Returned(Gives(Self, "list", validate_database(v[2]).issues),
                   "validate_database(v)", <<v>>, TRUE)

(***************************************************************************)
(* ui_helpers.py : ListPanel.make_unique_name, and the paste handlers of   *)
(* the pages that call it.                                                 *)
(***************************************************************************)
\* number of copies of a name that may exist already
MaxCopies == 3

\* f"{base}_Copy" for n = 1, f"{base}_Copy{n}" above
CopyName(base, n) ==
    base \o <<"_", "C", "o", "p", "y">> \o (IF n = 1 THEN <<>> ELSE <<ToString(n)>>)

\* the while loop of make_unique_name, from i on
RECURSIVE NumberedCopy(_, _, _)
NumberedCopy(base, keys, i) ==
    IF CopyName(base, i) \notin keys THEN CopyName(base, i)
    ELSE NumberedCopy(base, keys, i + 1)

\* faulty variant of make_unique_name: the first candidate is not tested
make_copy_name(base, keys) ==
    LET b == Strip(OrElse(base, JStr(<<>>))[2])
    IN CopyName(IF b = <<>> THEN <<"I", "t", "e", "m">> ELSE b, 1)

\* ListPanel.make_unique_name(base, exists), keys the names that exist
make_unique_name(base, keys) ==
    LET b == Strip(OrElse(base, JStr(<<>>))[2])
        name == IF b = <<>> THEN <<"I", "t", "e", "m">> ELSE b
    IN IF CopyName(name, 1) \notin keys THEN CopyName(name, 1)
       ELSE NumberedCopy(name, keys, 2)

\* base_id = str(payload.get("id") or fallback).strip() or fallback
BaseId(payload, fallback) ==
    LET b == Strip(StrOf(OrElse(Get(payload[2], <<"id">>, JNull), JStr(fallback)))[2])
    IN JStr(IF b = <<>> THEN fallback ELSE b)

\* PageComments._paste_set
paste_set(self, payload) ==
    IF ~IsDict(payload) \/ Get(payload[2], <<"kind">>, JNull) # JStr(<<"comment_set">>)
    THEN Outcome(self, "False")
    ELSE
    LET d0 == SetDefault(self.data[2], K_commentSets, EmptyDict)
        s0 == [self EXCEPT !.data = JDict(d0)]
        sets == At(d0, K_commentSets)
        data_ == Get(payload[2], <<"data">>, JNull)
    IN IF ~IsList(data_) THEN Outcome(s0, "False")
       ELSE IF ~IsDict(sets) THEN Outcome(s0, "TypeError")
       ELSE Outcome(page_set_dirty(
                       [s0 EXCEPT !.data =
                           JDict(Put(d0, K_commentSets,
                                     JDict(Put(sets[2],
                                               make_unique_name(BaseId(payload, <<"S", "e", "t">>),
                                                                KeySet(sets[2])),
                                               data_))))]),
                    "True")

\* PageEmoji._paste_preset, rows the rows of the list widget
paste_preset(self, payload, rows) ==
    IF ~IsDict(payload) \/ Get(payload[2], <<"kind">>, JNull) # JStr(<<"emoji_preset">>)
    THEN Outcome(self, "False")
    ELSE
    LET d0 == SetDefault(self.data[2], K_emojiPresets, EmptyDict)
        s0 == [self EXCEPT !.data = JDict(d0)]
        presets == At(d0, K_emojiPresets)
        data_ == Get(payload[2], <<"data">>, JNull)
    IN IF ~IsDict(data_) THEN Outcome(s0, "False")
       ELSE IF ~IsDict(presets) \/ \E i \in DOMAIN presets[2] : ~IsDict(presets[2][i][2])
       THEN Outcome(s0, "TypeError")
       ELSE Outcome(page_set_dirty(
                       [s0 EXCEPT !.data =
                           JDict(Put(d0, K_emojiPresets,
                                     JDict(Put(rebuild_orders(presets[2], rows, 1),
                                               make_unique_name(
                                                   BaseId(payload, <<"P", "r", "e", "s", "e", "t">>),
                                                   KeySet(presets[2])),
                                               JDict(Put(data_[2], K_order, JInt(Len(rows))))))))]),
                    "True")

\* the bases a copy is asked for: none, empty, blank, a name, a name with a
\* blank before it, the fallback name, and a name that is a copy itself
CopyBases ==
    {JNull, JStr(<<>>), JStr(<<" ">>), JStr(IdA), JStr(<<" ">> \o IdA),
     JStr(<<"I", "t", "e", "m">>), JStr(CopyName(IdA, 1))}

\* the names that may exist: a name, its copies and the copies of the
\* fallback name
CopyKeys ==
    {IdA, CopyName(<<" ">> \o IdA, 1)}
    \cup {CopyName(b, n) : b \in {IdA, <<"I", "t", "e", "m">>}, n \in 1..MaxCopies}

\* make_unique_name(base, exists)
MakeUniqueNameCall ==
    /\ pc = "idle"
    /\ \E base \in CopyBases, keys \in SUBSET CopyKeys :
          Returned(Gives(Self, "str", JStr(make_unique_name(base, keys))),
                   "make_unique_name", <<base, keys>>, TRUE)

CallNext ==
    \/ ExportCall
    \/ CleanTimeslotCall
    \/ ValidateCall
    \/ MakeUniqueNameCall
    \/ EventLoop

CallSpec == Init /\ [][CallNext]_vars

ExportReturned == pc = "returned" /\ call.op = "export_to_js(v)"

\* the atom t occurs in the text v
Mentions(v, t) == IsStr(v) /\ \E i \in DOMAIN v[2] : v[2][i] = t

\* the names Python gives the types of the values that are no mapping
PythonNames == [null |-> "NoneType", list |-> "list", str |-> "str", int |-> "int"]

\* C11: export_to_js called with a root that is not a mapping raises a
\* TypeError whose text names the type of the value received, and hands back
\* no module
C11_RootMustBeMapping ==
    (ExportReturned /\ ~IsDict(call.args[1]))
    => /\ call.ret = "TypeError"
       /\ Mentions(call.value, PythonNames[call.args[1][1]])
       /\ ~IsDict(call.value)

C11_Witness ==
    /\ ExportReturned
    /\ call.args[1] = JList(<<>>)
    /\ call.ret = "TypeError"
    /\ Mentions(call.value, "list")

\* C12: for every document whose root is a mapping, export_to_js hands back
\* a module and raises nothing, whatever the nested values are
C12_ExportNeverAborts ==
    (ExportReturned /\ IsDict(call.args[1]))
    => /\ call.ret = "str"
       /\ IsDict(call.value)

\* v with the keys of every mapping in it in the opposite order
RECURSIVE Reversed(_)
Reversed(v) ==
    CASE IsDict(v) ->
            JDict([i \in DOMAIN v[2] |->
                      <<v[2][Len(v[2]) + 1 - i][1], Reversed(v[2][Len(v[2]) + 1 - i][2])>>])
      [] IsList(v) -> JList([i \in DOMAIN v[2] |-> Reversed(v[2][i])])
      [] OTHER -> v

\* the keys of the pairs go up
KeysGoUp(pairs) ==
    \A i \in DOMAIN pairs : \A j \in DOMAIN pairs : i < j => StrLess(pairs[i][1], pairs[j][1])

\* every mapping in v lists its keys in lexicographic order
RECURSIVE AllSorted(_)
AllSorted(v) ==
    CASE IsDict(v) -> KeysGoUp(v[2]) /\ \A i \in DOMAIN v[2] : AllSorted(v[2][i][2])
      [] IsList(v) -> \A i \in DOMAIN v[2] : AllSorted(v[2][i])
      [] OTHER -> TRUE

\* the entries of a section, none when the section is no mapping
Entries(d, k) ==
    IF IsDict(Get(d[2], k, EmptyDict)) THEN Get(d[2], k, EmptyDict)[2] ELSE <<>>

\* where the data model has a list (the names of a pool, the texts of a
\* block, the blocks of a set) the document has no mapping
ListsAreNoMappings(d) ==
    /\ \A i \in DOMAIN Entries(d, K_usernames) :
          LET names == Entries(d, K_usernames)[i][2]
          IN ~IsDict(names) /\ (IsList(names) => \A j \in DOMAIN names[2] : ~IsDict(names[2][j]))
    /\ \A i \in DOMAIN Entries(d, K_commentBlocks) :
          LET b == Entries(d, K_commentBlocks)[i][2]
          IN IsDict(b) => ~IsDict(Get(b[2], K_comments, JNull))
    /\ \A i \in DOMAIN Entries(d, K_commentSets) :
          LET set == Entries(d, K_commentSets)[i][2]
          IN IsDict(set) => ~IsDict(Get(set[2], <<"blocks">>, JNull))

\* the six tables of an exported module
Table(module, name) == At(module[2], <<name>>)

\* C13: a second export of the document as the first left it gives the same
\* module; the document with the keys of its mappings in another insertion
\* order (sorted at every level, or reversed at every level) exports to the
\* same module; every mapping of the module lists its keys in lexicographic
\* order and the username pools come in poolId order.  For documents that
\* hold lists where the data model has lists.
C13_ExportDeterministic ==
    (ExportReturned /\ call.ret = "str" /\ ListsAreNoMappings(call.args[1]))
    => /\ export_to_js(export_to_js(call.args[1]).data).out = call.value
       /\ export_to_js(Dumps(call.args[1])).out = call.value
       /\ export_to_js(Reversed(call.args[1])).out = call.value
       /\ \A i \in DOMAIN call.value[2] : AllSorted(call.value[2][i][2])
       /\ LET pools == Table(call.value, "COMMENT_USERNAME_POOLS")[2]
          IN \A i \in DOMAIN pools : \A j \in DOMAIN pools :
                i < j => StrLess(pools[i][2][1][2], pools[j][2][1][2])

C13_Witness ==
    /\ ExportReturned
    /\ call.ret = "str"
    /\ call.args[1] = RichDoc(JInt(1))
    /\ ~AllSorted(call.args[1])
    /\ Reversed(call.args[1]) # Dumps(call.args[1])
    /\ Len(Table(call.value, "COMMENT_USERNAME_POOLS")[2]) = 2
    /\ Len(Table(call.value, "SOCIAL_PROFILES")[2]) = 2

\* the posts of a profile of the document, under their keys
SourcePosts(prof) ==
    OrElse(Get(OrElse(prof, EmptyDict)[2], K_posts, EmptyDict), EmptyDict)[2]

\* the posts of a profile, each with the post the export made of it
PostPairsOf(prof, exported) ==
    {<<OrElse(At(SourcePosts(prof), k), EmptyDict), At(At(exported[2], K_posts)[2], k)>> :
        k \in KeySet(SourcePosts(prof))}

\* the posts of an exported document, public and heroine, each with the post
\* the export made of it
PostPairs(d, module) ==
    LET profiles == OrElse(Get(d[2], K_profiles, EmptyDict), EmptyDict)[2]
    IN PostPairsOf(OrElse(Get(d[2], K_heroine, EmptyDict), EmptyDict),
                   Table(module, "SOCIAL_HEROINE_PROFILE"))
       \cup UNION {PostPairsOf(At(profiles, pid), At(Table(module, "SOCIAL_PROFILES")[2], pid)) :
                      pid \in KeySet(profiles)}

\* the post names a preset: its emojiPreset is a string, non-empty once trimmed
NamesPreset(post) ==
    /\ Has(post[2], K_emojiPreset)
    /\ IsStr(At(post[2], K_emojiPreset))
    /\ Strip(At(post[2], K_emojiPreset)[2]) # <<>>

\* the exported post refers to the preset of the post by its trimmed id and
\* has no emoji key
RefersToPreset(post, out) ==
    /\ Has(out[2], <<"emojiPresetId">>)
    /\ At(out[2], <<"emojiPresetId">>) = JStr(Strip(At(post[2], K_emojiPreset)[2]))
    /\ ~Has(out[2], <<"emoji">>)

\* the exported post has the emoji values inline and no emojiPresetId key
Inlines(out, values) ==
    /\ Has(out[2], <<"emoji">>)
    /\ At(out[2], <<"emoji">>) = Dumps(values)
    /\ ~Has(out[2], <<"emojiPresetId">>)

ExportDone == ExportReturned /\ call.ret = "str"

\* C14 as stated: an exported post refers to its preset when the post names
\* one, and otherwise has inline the post's emojiOverride, or the all-zero
\* default when the post has no emojiOverride
C14_EmojiAsStated ==
    ExportDone
    => \A pair \in PostPairs(call.args[1], call.value) :
          IF NamesPreset(pair[1])
          THEN RefersToPreset(pair[1], pair[2])
          ELSE Inlines(pair[2], Get(pair[1][2], K_emojiOverride, default_emoji))

\* C14: an exported post refers to its preset when the post names one, and
\* otherwise has inline the post's emojiOverride, or the all-zero default when
\* the post has no emojiOverride or a falsy one (null, an empty mapping)
C14_EmojiReferenceOrInline ==
    ExportDone
    => \A pair \in PostPairs(call.args[1], call.value) :
          IF NamesPreset(pair[1])
          THEN RefersToPreset(pair[1], pair[2])
          ELSE Inlines(pair[2], OrElse(Get(pair[1][2], K_emojiOverride, default_emoji),
                                       default_emoji))

C14_Witness ==
    /\ ExportDone
    /\ \E pair \in PostPairs(call.args[1], call.value) :
          /\ NamesPreset(pair[1])
          /\ At(pair[1][2], K_emojiPreset) = JStr(<<" ">> \o IdB)
          /\ Get(pair[1][2], K_emojiOverride, JNull) = Ranges
          /\ At(pair[2][2], <<"emojiPresetId">>) = JStr(IdB)
    /\ \E pair \in PostPairs(call.args[1], call.value) :
          /\ ~NamesPreset(pair[1])
          /\ At(pair[2][2], <<"emoji">>) = Dumps(RangesWithOrder)

\* the key k occurs in v, at any nesting level
RECURSIVE HasKeyWithin(_, _)
HasKeyWithin(v, k) ==
    CASE IsDict(v) -> Has(v[2], k) \/ \E i \in DOMAIN v[2] : HasKeyWithin(v[2][i][2], k)
      [] IsList(v) -> \E i \in DOMAIN v[2] : HasKeyWithin(v[2][i], k)
      [] OTHER -> FALSE

\* the entities an export writes: the presets, the public profiles, the
\* heroine profile, and the posts of the profiles
ExportedEntities(module) ==
    LET presets == Table(module, "SOCIAL_EMOJI_PRESETS")[2]
        profiles == Table(module, "SOCIAL_PROFILES")[2]
        heroine == Table(module, "SOCIAL_HEROINE_PROFILE")
        posts(prof) == At(prof[2], K_posts)[2]
    IN {presets[i][2] : i \in DOMAIN presets}
       \cup {profiles[i][2] : i \in DOMAIN profiles}
       \cup {heroine}
       \cup {posts(heroine)[j][2] : j \in DOMAIN posts(heroine)}
       \cup UNION {{posts(profiles[i][2])[j][2] : j \in DOMAIN posts(profiles[i][2])} :
                      i \in DOMAIN profiles}

\* C15 as stated: no key named order occurs at any nesting level of the
\* exported emoji presets, public profiles and heroine profile
C15_NoOrderAnywhere ==
    ExportDone
    => /\ ~HasKeyWithin(Table(call.value, "SOCIAL_EMOJI_PRESETS"), K_order)
       /\ ~HasKeyWithin(Table(call.value, "SOCIAL_PROFILES"), K_order)
       /\ ~HasKeyWithin(Table(call.value, "SOCIAL_HEROINE_PROFILE"), K_order)

\* C15: no exported preset, profile or post has a field named order, whatever
\* order the presets, profiles and posts of the document carry
C15_NoOrderField ==
    ExportDone
    => \A entity \in ExportedEntities(call.value) : ~Has(entity[2], K_order)

C15_Witness ==
    /\ ExportDone
    /\ call.args[1] = RichDoc(JInt(1))
    /\ Len(Table(call.value, "SOCIAL_EMOJI_PRESETS")[2]) = 2
    /\ Len(Table(call.value, "SOCIAL_PROFILES")[2]) = 2
    /\ \A i \in DOMAIN Entries(call.args[1], K_emojiPresets) :
          Has(Entries(call.args[1], K_emojiPresets)[i][2][2], K_order)
    /\ \A i \in DOMAIN Entries(call.args[1], K_profiles) :
          Has(Entries(call.args[1], K_profiles)[i][2][2], K_order)
    /\ Has(At(call.args[1][2], K_heroine)[2], K_order)
    /\ \A i \in DOMAIN SourcePosts(At(call.args[1][2], K_heroine)) :
          Has(SourcePosts(At(call.args[1][2], K_heroine))[i][2][2], K_order)

TimeslotReturned == pc = "returned" /\ call.op = "clean_timeslot"

\* the characters of the inputs that are a letter, a digit, the underscore or
\* the hyphen
IsNameChar(c) == c \notin {" ", "*", DotAbove}

\* C16: the timeslot of a string is the string without the characters that are
\* no letter, digit, underscore or hyphen, in lower case, and "all" when
\* nothing is left; the examples of the spec come out as given; normalizing a
\* normalized timeslot gives it back unchanged
C16_TimeslotNormalized ==
    TimeslotReturned
    => /\ call.ret = "none"
       /\ LET rest == LowerStr(SelectSeq(call.args[1], IsNameChar))
          IN call.value = JStr(IF rest = <<>> THEN <<"all">> ELSE rest)
       /\ call.args[1] = <<"N", "I", "G", "H", "T">>
             => call.value = JStr(<<"n", "i", "g", "h", "t">>)
       /\ call.args[1] = <<"-", "w", "e", "i", "r", "d", "_", "2">>
             => call.value = JStr(call.args[1])
       /\ call.args[1] = <<"M", "o", "r", "n", "i", "n", "g", " ", "*">>
             => call.value = JStr(<<"m", "o", "r", "n", "i", "n", "g">>)
       /\ clean_timeslot(call.value).value = call.value

(***************************************************************************)
(* pages : what the list pages do to the document when they read it, and   *)
(* the loaded documents they read.                                         *)
(***************************************************************************)
\* the loop "for i, pid in enumerate(sorted(profiles.keys())):
\* profiles.setdefault(pid, {})["order"] = i" from position i on: the pairs
\* as the loop leaves them, and the exception that stops it
RECURSIVE assign_orders(_, _, _)
assign_orders(pairs, ids, i) ==
    IF i > Len(ids) THEN [pairs |-> pairs, exc |-> "none"]
    ELSE IF ~IsDict(At(pairs, ids[i])) THEN [pairs |-> pairs, exc |-> "TypeError"]
    ELSE assign_orders(
            Put(pairs, ids[i], JDict(Put(At(pairs, ids[i])[2], K_order, JInt(i - 1)))),
            ids, i + 1)

\* the rest of _ensure_profile_orders once the profiles are read, d0 the
\* document with its profiles member
EnsureOrdersIn(self, d0, profiles) ==
    IF ~IsDict(profiles) THEN Outcome([self EXCEPT !.data = JDict(d0)], "AttributeError")
    ELSE IF \E i \in DOMAIN profiles[2] : PyIn(K_order, profiles[2][i][2]) = "TypeError"
    THEN Outcome([self EXCEPT !.data = JDict(d0)], "TypeError")
    ELSE IF \A i \in DOMAIN profiles[2] : PyIn(K_order, profiles[2][i][2]) = "yes"
    THEN Outcome([self EXCEPT !.data = JDict(d0)], "None")
    ELSE Outcome([self EXCEPT !.data =
                    JDict(Put(d0, K_profiles,
                              JDict(assign_orders(profiles[2],
                                                  KeysOf(SortedPairs(profiles[2])), 1).pairs)))],
                 IF assign_orders(profiles[2], KeysOf(SortedPairs(profiles[2])), 1).exc = "none"
                 THEN "None" ELSE "TypeError")

\* PagePublicProfile._ensure_profile_orders
ensure_profile_orders(self) ==
    EnsureOrdersIn(self, SetDefault(self.data[2], K_profiles, EmptyDict),
                   At(SetDefault(self.data[2], K_profiles, EmptyDict), K_profiles))

\* the rest of PageEmoji._refresh_list once the presets are read: the ids
\* handed to the list widget
RefreshListIn(self, d0, presets) ==
    IF ~IsDict(presets) \/ \E i \in DOMAIN presets[2] : ~IsDict(presets[2][i][2])
    THEN Outcome([self EXCEPT !.data = JDict(d0)], "AttributeError")
    ELSE Gives([self EXCEPT !.data = JDict(d0)], "None", OrderedIds(presets[2]))

\* PageEmoji._refresh_list
refresh_list(self) ==
    RefreshListIn(self, SetDefault(self.data[2], K_emojiPresets, EmptyDict),
                  At(SetDefault(self.data[2], K_emojiPresets, EmptyDict), K_emojiPresets))

\* PageHeroineProfile._ensure_heroine_root on the heroine member: the member
\* with the fields it lacked
HeroineRoot(root) ==
    JDict(SetDefault(SetDefault(SetDefault(root[2], <<"defaultDisplayName">>, JStr(<<>>)),
                                <<"defaultProfileImage">>, JStr(<<>>)),
                     K_posts, EmptyDict))

\* the rest of PageHeroineProfile._list_posts once the heroine member is
\* read: the ids handed to the list widget
ListPostsIn(self, d0, root) ==
    IF ~IsDict(root) THEN Outcome([self EXCEPT !.data = JDict(d0)], "AttributeError")
    ELSE IF ~IsDict(At(HeroineRoot(root)[2], K_posts))
    THEN Outcome([self EXCEPT !.data = JDict(Put(d0, K_heroine, HeroineRoot(root)))],
                 "AttributeError")
    ELSE Gives([self EXCEPT !.data = JDict(Put(d0, K_heroine, HeroineRoot(root)))], "None",
               KeysOf(SortedPairs(At(HeroineRoot(root)[2], K_posts)[2])))

\* PageHeroineProfile._list_posts
list_posts(self) ==
    ListPostsIn(self, SetDefault(self.data[2], K_heroine, EmptyDict),
                At(SetDefault(self.data[2], K_heroine, EmptyDict), K_heroine))

\* the order an entity of a loaded document may have
Orders == {Absent, JInt(5)}

\* three entities under the keys b, a, c, in this insertion order
Three(x, y, z) ==
    JDict(<< <<<<"b">>, x>>, <<<<"a">>, y>>, <<<<"c">>, z>> >>)

OrderTriples == Orders \X Orders \X Orders

\* loaded documents whose profiles, heroine posts or emoji presets have an
\* order field or lack it, and documents with a value of the wrong type
PageDocs ==
    {Doc(Three(OrderedProfile(t[1], EmptyDict), OrderedProfile(t[2], EmptyDict),
               OrderedProfile(t[3], EmptyDict)),
         Absent, Absent, Absent, Absent, Absent) : t \in OrderTriples}
    \cup
    {Doc(Absent,
         Profile(Three(ExportPost(Absent, Absent, Absent, t[1]),
                       ExportPost(Absent, Absent, Absent, t[2]),
                       ExportPost(Absent, Absent, Absent, t[3]))),
         Absent, Absent, Absent, Absent) : t \in OrderTriples}
    \cup
    {Doc(Absent, Absent, Absent, Absent, Absent,
         Three(Preset(t[1]), Preset(t[2]), Preset(t[3]))) : t \in OrderTriples}
    \cup MalformedWith(JList(<<JStr(IdA)>>)) \cup MalformedWith(JNull)

PageInit ==
    /\ data \in PageDocs
    /\ is_dirty = FALSE
    /\ current_path = JStr(<<"db.json">>)
    /\ pc = "idle"
    /\ call = NoCall
    /\ emitted = <<>>

EnsureProfileOrders ==
    /\ pc = "idle"
    /\ Returned(ensure_profile_orders(Self), "ensure_profile_orders", <<>>, TRUE)

RefreshList ==
    /\ pc = "idle"
    /\ Returned(refresh_list(Self), "refresh_list", <<>>, TRUE)

ListPosts ==
    /\ pc = "idle"
    /\ Returned(list_posts(Self), "list_posts", <<>>, TRUE)

\* PagePublicProfile._list_profiles : the ids handed to the list widget,
\* sorted on _to_int(order), which raises on an order that is neither a
\* number nor a string
list_profiles(self) ==
    LET d0 == SetDefault(self.data[2], K_profiles, EmptyDict)
        profiles == At(d0, K_profiles)
        s0 == [self EXCEPT !.data = JDict(d0)]
    IN IF ~IsDict(profiles) \/ \E i \in DOMAIN profiles[2] : ~IsDict(profiles[2][i][2])
       THEN Outcome(s0, "AttributeError")
       ELSE IF \E i \in DOMAIN profiles[2] :
                  LET o == Get(profiles[2][i][2][2], K_order, JInt(0))
                  IN ~IsInt(o) /\ ~IsStr(o)
       THEN Outcome(s0, "TypeError")
       ELSE Gives(s0, "None", OrderedIds(profiles[2]))

\* the rows of a list widget once the row at position i is dropped at j
MoveRow(rows, i, j) ==
    LET rest == [k \in 1..(Len(rows) - 1) |-> IF k < i THEN rows[k] ELSE rows[k + 1]]
    IN [k \in DOMAIN rows |->
            IF k < j THEN rest[k] ELSE IF k = j THEN rows[i] ELSE rest[k - 1]]

\* PagePublicProfile._rebuild_profile_orders, rows the rows of the list
rebuild_profile_orders(self, rows) ==
    LET d0 == SetDefault(self.data[2], K_profiles, EmptyDict)
    IN [self EXCEPT !.data =
            JDict(Put(d0, K_profiles,
                      JDict(rebuild_orders(At(d0, K_profiles)[2], rows, 1))))]

\* PagePublicProfile._on_profiles_reordered, outside the page's own updates
on_profiles_reordered(self, rows) ==
    Outcome(mark_dirty(rebuild_profile_orders(self, rows)), "None")

\* PageEmoji._on_presets_reordered, outside the page's own updates
on_presets_reordered(self, rows) ==
    LET d0 == SetDefault(self.data[2], K_emojiPresets, EmptyDict)
    IN Outcome(page_set_dirty(
                  [self EXCEPT !.data =
                      JDict(Put(d0, K_emojiPresets,
                                JDict(rebuild_orders(At(d0, K_emojiPresets)[2], rows, 1))))]),
               "None")

\* a row of the profiles list is dragged to another place; the list shows
\* what the last reload of the page gave it, and the document is as that
\* reload left it
ReorderProfiles ==
    /\ pc = "idle"
    /\ ensure_profile_orders(Self).ret = "None"
    /\ ensure_profile_orders(Self).self.data = data
    /\ list_profiles(Self).ret = "None"
    /\ \E i, j \in DOMAIN list_profiles(Self).value :
          /\ i # j
          /\ Returned(on_profiles_reordered(Self, MoveRow(list_profiles(Self).value, i, j)),
                      "on_profiles_reordered",
                      <<MoveRow(list_profiles(Self).value, i, j)>>, TRUE)

\* a row of the presets list is dragged to another place
ReorderPresets ==
    /\ pc = "idle"
    /\ Has(data[2], K_emojiPresets)
    /\ refresh_list(Self).ret = "None"
    /\ \E i, j \in DOMAIN refresh_list(Self).value :
          /\ i # j
          /\ Returned(on_presets_reordered(Self, MoveRow(refresh_list(Self).value, i, j)),
                      "on_presets_reordered",
                      <<MoveRow(refresh_list(Self).value, i, j)>>, TRUE)

PageNext ==
    \/ EnsureProfileOrders
    \/ RefreshList
    \/ ListPosts
    \/ ReorderProfiles
    \/ ReorderPresets
    \/ EventLoop

PageSpec == PageInit /\ [][PageNext]_vars

\* the reads of the three collections that carry an order field
Reads == {"ensure_profile_orders", "refresh_list", "list_posts"}

ReadDone == pc = "returned" /\ call.op \in Reads /\ call.ret = "None"

\* the collection a read is about, in the document d
CollectionOf(d, op) ==
    CASE op = "ensure_profile_orders" -> Entries(d, K_profiles)
      [] op = "refresh_list" -> Entries(d, K_emojiPresets)
      [] OTHER ->
            IF IsDict(Get(d[2], K_heroine, EmptyDict)) /\ IsDict(Get(Get(d[2], K_heroine, EmptyDict)[2], K_posts, EmptyDict))
            THEN Get(Get(d[2], K_heroine, EmptyDict)[2], K_posts, EmptyDict)[2]
            ELSE <<>>

CollectionBefore == CollectionOf(call.pre_data, call.op)
CollectionNow == CollectionOf(data, call.op)

\* every entity of the collection is a mapping
AllEntities(pairs) == \A i \in DOMAIN pairs : IsDict(pairs[i][2])

HasOrder(entity) == Has(entity[2], K_order)

\* every entity has as its order its index among the sorted keys
Backfilled(pairs) ==
    \A i \in DOMAIN pairs :
        Get(SortedPairs(pairs)[i][2][2], K_order, Absent) = JInt(i - 1)

\* C17: when a read of one of the three collections finds an entity without
\* an order field, every entity of the collection has afterwards, as order,
\* its index in the sorted sequence of the keys
C17_OrderBackfill ==
    (/\ ReadDone
     /\ AllEntities(CollectionBefore)
     /\ \E i \in DOMAIN CollectionBefore : ~HasOrder(CollectionBefore[i][2]))
    => /\ KeysOf(CollectionNow) = KeysOf(CollectionBefore)
       /\ Backfilled(CollectionNow)

\* C18: when a read finds entities with an order field and at least one
\* without, every entity that had an order field has the same order afterwards
C18_BackfillKeepsOrders ==
    (/\ ReadDone
     /\ AllEntities(CollectionBefore)
     /\ \E i \in DOMAIN CollectionBefore : ~HasOrder(CollectionBefore[i][2])
     /\ \E i \in DOMAIN CollectionBefore : HasOrder(CollectionBefore[i][2]))
    => \A i \in DOMAIN CollectionBefore :
          HasOrder(CollectionBefore[i][2])
          => /\ Has(CollectionNow, CollectionBefore[i][1])
             /\ Get(At(CollectionNow, CollectionBefore[i][1])[2], K_order, Absent)
                   = At(CollectionBefore[i][2][2], K_order)

(***************************************************************************)
(* Properties of the load and of the validator's section checks.           *)
(***************************************************************************)
SetDataReturned == pc = "returned" /\ call.op = "set_data"

\* the canonical empty document
CanonicalEmpty ==
    JDict(<< <<<<"profiles">>, JDict(<<>>)>>,
             <<<<"heroine">>, JDict(<< <<<<"posts">>, JDict(<<>>)>> >>)>>,
             <<<<"usernames">>, JDict(<<>>)>>,
             <<<<"commentBlocks">>, JDict(<<>>)>>,
             <<<<"commentSets">>, JDict(<<>>)>>,
             <<<<"emojiPresets">>, JDict(<<>>)>> >>)

AuxSections == {K_usernames, K_commentBlocks, K_commentSets, K_emojiPresets}

\* the document has under the section a value that is no mapping
NoMappingAt(d, section) == Has(d[2], section) /\ ~IsDict(At(d[2], section))

\* C20: for each auxiliary section whose value is no mapping, whatever the
\* value (the falsy ones included), validate gives exactly one ERROR with the
\* section name as path, no issue about an entry of the section, and an ERROR
\* for every post reference into the section
C20_SectionTypeCheck ==
    ValidateReturned
    => \A section \in AuxSections :
          NoMappingAt(data, section)
          => /\ ErrorsAt(call.value, section) = 1
             /\ \A i \in DOMAIN call.value :
                   ~StartsWith(call.value[i].path, <<section[1] \o ".">>)
             /\ \A i \in DOMAIN AllPosts(data) : \A field \in PostFields :
                   (TargetOf(field) = section
                    /\ is_non_empty_str(Get(AllPosts(data)[i][2][2], field, JNull)))
                   => ErrorsAt(call.value, AllPosts(data)[i][1] \o PathEnd(field)) = 1

(***************************************************************************)
(* The validator called on its own: the order of the issues and the check  *)
(* of the comment sets.                                                    *)
(***************************************************************************)
ValidateDone == pc = "returned" /\ call.op = "validate_database(v)"

\* the part of the run an issue comes from, by its path: 0 a section type
\* check, 1 usernames, 2 commentBlocks, 3 commentSets, 4 a public post, 5 a
\* heroine post
Stage(issue) ==
    CASE Len(issue.path) = 1 -> 0
      [] Head(issue.path) = "usernames." -> 1
      [] Head(issue.path) = "commentBlocks." -> 2
      [] Head(issue.path) = "commentSets." -> 3
      [] Head(issue.path) = "profiles." -> 4
      [] OTHER -> 5

SectionRank == [usernames |-> 1, commentBlocks |-> 2, commentSets |-> 3, emojiPresets |-> 4]

Last(s) == s[Len(s)]
ButLast(s) == SubSeq(s, 1, Len(s) - 1)

\* the path names an element: <owner>[<index>]
Indexed(path) == Len(path) > 3 /\ Last(path) = "]" /\ path[Len(path) - 2] = "["
OwnerOf(path) == SubSeq(path, 1, Len(path) - 3)
ElementIndex(path) == CHOOSE n \in 0..9 : ToString(n) = path[Len(path) - 1]

\* the issue a comes before the issue b as the order of the run has it
InOrder(a, b) ==
    /\ Stage(a) <= Stage(b)
    /\ (Stage(a) = 0 /\ Stage(b) = 0)
          => SectionRank[Head(a.path)] < SectionRank[Head(b.path)]
    /\ (Indexed(a.path) /\ Indexed(b.path) /\ OwnerOf(a.path) = OwnerOf(b.path))
          => ElementIndex(a.path) < ElementIndex(b.path)
    /\ (Stage(a) >= 4 /\ ButLast(a.path) = ButLast(b.path))
          => (Last(a.path) = ".emojiPreset" /\ Last(b.path) = ".commentsSet")

\* C21: in the sequence validate returns, the section type errors come first
\* (usernames, commentBlocks, commentSets, emojiPresets), then the issues of
\* usernames, of commentBlocks, of commentSets, then those of the posts, the
\* public posts before the heroine's; for one post the emojiPreset issue
\* precedes the commentsSet issue; within a pool or a set the issues come in
\* increasing element index.
C21_IssueOrder ==
    ValidateDone
    => \A i, j \in DOMAIN call.value :
          i < j => InOrder(call.value[i], call.value[j])

\* validate has returned issues of all six parts of its run, two of them of
\* one pool, two of one set and two of one post
C21_Witness ==
    /\ ValidateDone
    /\ {Stage(call.value[i]) : i \in DOMAIN call.value} = 0..5
    /\ \A owner \in {<<"usernames.">>, <<"commentSets.">>} :
          \E i, j \in DOMAIN call.value :
             /\ i < j
             /\ Indexed(call.value[i].path) /\ Indexed(call.value[j].path)
             /\ Head(call.value[i].path) = Head(owner)
             /\ OwnerOf(call.value[i].path) = OwnerOf(call.value[j].path)
    /\ \E i, j \in DOMAIN call.value :
          /\ i < j
          /\ Stage(call.value[i]) = 4
          /\ ButLast(call.value[i].path) = ButLast(call.value[j].path)

\* the comment sets of the document validate was called with, and its blocks
SetsChecked ==
    LET s == OrElse(Get(call.args[1][2], K_commentSets, EmptyDict), EmptyDict)
    IN IF IsDict(s) THEN s[2] ELSE <<>>

BlocksChecked == OrElse(Get(call.args[1][2], K_commentBlocks, EmptyDict), EmptyDict)

SetPath(set_id) == <<"commentSets.">> \o set_id
ElementPath(set_id, i) == SetPath(set_id) \o <<"[", ToString(i - 1), "]">>

\* the levels of the issues at a path, in the order of the run
LevelsAt(issues, path) ==
    LET at == SelectSeq(issues, LAMBDA x : x.path = path)
    IN [i \in DOMAIN at |-> at[i].level]

\* the issues at the paths of the elements of a set
ElementIssues(issues, set_id) ==
    SelectSeq(issues, LAMBDA x : Indexed(x.path) /\ OwnerOf(x.path) = SetPath(set_id))

\* what the check of one element gives; with trimmed, a string of blanks
\* counts as empty
ElementLevels(bid, trimmed) ==
    IF ~(IsStr(bid) /\ (IF trimmed THEN Strip(bid[2]) ELSE bid[2]) # <<>>) THEN <<"WARN">>
    ELSE IF ~IsKey(BlocksChecked, bid[2]) THEN <<"ERROR">>
    ELSE <<>>

\* every set is reported as the check of the comment sets has it
SetsReported(issues, trimmed) ==
    \A k \in DOMAIN SetsChecked :
        LET set_id == SetsChecked[k][1]
            ids == SetsChecked[k][2]
        IN IF ~IsList(ids)
           THEN /\ LevelsAt(issues, SetPath(set_id)) = <<"ERROR">>
                /\ ElementIssues(issues, set_id) = <<>>
           ELSE /\ LevelsAt(issues, SetPath(set_id)) = <<>>
                /\ \A i \in DOMAIN ids[2] :
                      LevelsAt(issues, ElementPath(set_id, i))
                          = ElementLevels(ids[2][i], trimmed)

\* C22 as stated: for every commentSets[set] that is not a sequence validate
\* emits one ERROR at commentSets.<set> and inspects none of its elements;
\* for a sequence each element at index i gives at most one issue at
\* commentSets.<set>[i]: a WARN when it is not a non-empty string, otherwise
\* an ERROR when it is not a key of commentBlocks, otherwise nothing.
C22_SetsAsStated == ValidateDone => SetsReported(call.value, FALSE)

\* C22: the same, an element that is a string of blanks only counting as
\* empty: it gives the WARN, whether or not it is a key of commentBlocks.
C22_SetsChecked == ValidateDone => SetsReported(call.value, TRUE)

\* validate has returned for a document with a set that is no sequence and a
\* set with an element of each kind: no string, blank, unknown and known
C22_Witness ==
    /\ ValidateDone
    /\ \E k \in DOMAIN SetsChecked : ~IsList(SetsChecked[k][2])
    /\ \E k \in DOMAIN SetsChecked :
          /\ IsList(SetsChecked[k][2])
          /\ {ElementLevels(SetsChecked[k][2][2][i], TRUE) :
                i \in DOMAIN SetsChecked[k][2][2]} = {<<"WARN">>, <<"ERROR">>, <<>>}
          /\ \E i \in DOMAIN SetsChecked[k][2][2] :
                SetsChecked[k][2][2][i] = JStr(<<" ">>)
          /\ \E i \in DOMAIN SetsChecked[k][2][2] : ~IsStr(SetsChecked[k][2][2][i])

(***************************************************************************)
(* The export of the comment blocks.                                       *)
(***************************************************************************)
\* the pool a stored block names: absent or the empty string count as none
PoolOr(b, default) ==
    IF Has(b[2], K_usernamePool) /\ At(b[2], K_usernamePool) # JStr(<<>>)
    THEN At(b[2], K_usernamePool)
    ELSE default

\* the exported block is the stored block b in the canonical shape
Normalized(b, out) ==
    /\ IsDict(out)
    /\ KeySet(out[2]) = {K_usernamePool, <<"texts">>}
    /\ IsStrList(b)
          => /\ At(out[2], K_usernamePool) = JStr(<<"Global">>)
             /\ At(out[2], <<"texts">>) = b
    /\ (IsDict(b) /\ IsStrList(Get(b[2], K_comments, JNull))
            /\ IsStr(Get(b[2], K_usernamePool, JStr(<<>>))))
          => /\ At(out[2], <<"texts">>) = At(b[2], K_comments)
             /\ At(out[2], K_usernamePool) = PoolOr(b, JStr(<<"Global">>))

\* C23: every key of commentBlocks is a key of the exported blocks, with
\* exactly the members usernamePool and texts; a block stored as a bare list
\* of strings exports with usernamePool "Global" and texts the list in the
\* same order; a block stored as {usernamePool, comments} exports with texts
\* the comments in the same order and usernamePool the stored pool, or
\* "Global" when the stored pool is absent or empty.
C23_BlocksNormalized ==
    ExportDone
    => LET blocks == Entries(call.args[1], K_commentBlocks)
           out == Table(call.value, "SOCIAL_COMMENT_BLOCKS")
       IN /\ KeySet(out[2]) = KeySet(blocks)
          /\ \A i \in DOMAIN blocks : Normalized(blocks[i][2], At(out[2], blocks[i][1]))

\* an export has written a legacy block of three texts and, under a key that
\* sorts before it but was stored after it, a block with a pool, its
\* comments and a member more
C23_Witness ==
    /\ ExportDone
    /\ LET blocks == Entries(call.args[1], K_commentBlocks)
           out == Table(call.value, "SOCIAL_COMMENT_BLOCKS")
       IN /\ Len(blocks) = 2
          /\ IsDict(blocks[1][2]) /\ IsStrList(blocks[2][2])
          /\ Len(blocks[2][2][2]) = 3
          /\ Has(blocks[1][2][2], K_order)
          /\ Get(blocks[1][2][2], K_usernamePool, JNull) = JStr(<<" ">>)
          /\ Get(blocks[1][2][2], K_comments, JNull) = blocks[2][2]
          /\ out[2][1][1] = blocks[2][1]
          /\ At(out[2][2][2][2], K_usernamePool) = JStr(<<" ">>)

(***************************************************************************)
(* The reorders of the two lists that keep an order field.                 *)
(***************************************************************************)
ReorderDone ==
    /\ pc = "returned"
    /\ call.op \in {"on_profiles_reordered", "on_presets_reordered"}

\* the collection a reorder is about, in the document d
Reordered(d) ==
    Entries(d, IF call.op = "on_profiles_reordered" THEN K_profiles ELSE K_emojiPresets)

\* C24: after a reorder of the public profiles list or of the emoji presets
\* list, each entity of the collection has as order its new position in the
\* list, so that the orders are exactly 0, 1, ..., n-1, without gap or
\* duplicate.
C24_OrderAfterReorder ==
    ReorderDone
    => /\ call.ret = "None"
       /\ KeysOf(Reordered(data)) = KeysOf(Reordered(call.pre_data))
       /\ {call.args[1][i] : i \in DOMAIN call.args[1]} = KeySet(Reordered(data))
       /\ Len(call.args[1]) = Len(Reordered(data))
       /\ \A i \in DOMAIN call.args[1] :
             Get(At(Reordered(data), call.args[1][i])[2], K_order, Absent) = JInt(i - 1)
       /\ {At(Reordered(data)[i][2][2], K_order)[2] : i \in DOMAIN Reordered(data)}
             = 0..(Len(Reordered(data)) - 1)

\* each of the two lists has been reordered, with three entities that all had
\* the same order before, the last row dragged to the top
C24_Witness ==
    /\ ReorderDone
    /\ Len(Reordered(data)) = 3
    /\ \A i \in DOMAIN Reordered(call.pre_data) :
          Get(Reordered(call.pre_data)[i][2][2], K_order, Absent) = JInt(5)
    /\ call.args[1] = <<<<"c">>, <<"b">>, <<"a">>>>
    /\ call.op = "on_profiles_reordered"

C24_WitnessPresets ==
    /\ ReorderDone
    /\ call.op = "on_presets_reordered"
    /\ Len(Reordered(data)) = 3
    /\ \E i \in DOMAIN Reordered(call.pre_data) : ~HasOrder(Reordered(call.pre_data)[i][2])
    /\ call.args[1] # OrderedIds(Reordered(call.pre_data))

(***************************************************************************)
(* The names of the copies.                                                *)
(***************************************************************************)
UniqueNameReturned == pc = "returned" /\ call.op = "make_unique_name"

\* the name the copies are numbered from: the base, or Item for none; with
\* trimmed, the base without the blanks around it
CopiedName(base, trimmed) ==
    LET raw == IF IsStr(base) THEN base[2] ELSE <<>>
        b == IF trimmed THEN Strip(raw) ELSE raw
    IN IF b = <<>> THEN <<"I", "t", "e", "m">> ELSE b

\* name is the first free one of b_Copy, b_Copy2, b_Copy3, ...
FirstFreeCopy(name, b, keys) ==
    \E n \in 1..(Cardinality(keys) + 1) :
        /\ name = CopyName(b, n)
        /\ \A m \in 1..(n - 1) : CopyName(b, m) \in keys

\* a mapping with the keys, each with the value v
RECURSIVE WithKeys(_, _)
WithKeys(keys, v) ==
    IF keys = {} THEN <<>>
    ELSE LET k == CHOOSE x \in keys : TRUE
         IN <<<<k, v>>>> \o WithKeys(keys \ {k}, v)

\* the clipboard after a copy of the entity id
Payload(kind, id, value) ==
    JDict(<< <<<<"kind">>, JStr(<<kind>>)>>, <<<<"id">>, id>>, <<<<"data">>, value>> >>)

\* after holds the entries of before, in place and unchanged but for their
\* order field, and one entry more
OneKeyAdded(before, after) ==
    /\ Len(after) = Len(before) + 1
    /\ \A i \in DOMAIN before :
          /\ after[i][1] = before[i][1]
          /\ IF IsDict(before[i][2])
             THEN Without(after[i][2][2], K_order) = Without(before[i][2][2], K_order)
             ELSE after[i][2] = before[i][2]
    /\ after[Len(after)][1] \notin KeySet(before)

\* a paste of a copied set, and of a copied preset, into a document whose
\* section has the keys
PasteAddsOne(base, keys) ==
    /\ LET sets == WithKeys(keys, JList(<<JStr(IdA)>>))
           o == paste_set([Self EXCEPT !.data = JDict(<< <<K_commentSets, JDict(sets)>> >>)],
                          Payload("comment_set", base, JList(<<>>)))
       IN o.ret = "True" /\ OneKeyAdded(sets, Entries(o.self.data, K_commentSets))
    /\ LET presets == WithKeys(keys, Preset(JInt(0)))
           o == paste_preset([Self EXCEPT !.data = JDict(<< <<K_emojiPresets, JDict(presets)>> >>)],
                             Payload("emoji_preset", base, Preset(JInt(0))),
                             OrderedIds(presets))
       IN o.ret = "True" /\ OneKeyAdded(presets, Entries(o.self.data, K_emojiPresets))

UniqueName(trimmed) ==
    /\ call.ret = "str"
    /\ call.value[2] \notin call.args[2]
    /\ FirstFreeCopy(call.value[2], CopiedName(call.args[1], trimmed), call.args[2])
    /\ PasteAddsOne(call.args[1], call.args[2])

TimeSlotEnum ==
    {<<"m", "o", "r", "n", "i", "n", "g">>, <<"d", "a", "y">>,
     <<"s", "u", "n", "s", "e", "t">>, <<"n", "i", "g", "h", "t">>, <<"all">>}

\* C26: for every document and every exported post, the timeslot of the
\* exported post is one of morning, day, sunset, night, all, whatever string
\* the timeslot of the post holds.
C26_TimeslotInEnum ==
    ExportDone
    => \A pair \in PostPairs(call.args[1], call.value) :
          /\ Has(pair[2][2], <<"timeslot">>)
          /\ IsStr(At(pair[2][2], <<"timeslot">>))
          /\ At(pair[2][2], <<"timeslot">>)[2] \in TimeSlotEnum

\* what does hold: the exported timeslot is the cleaned timeslot of the post,
\* "all" for a post without one
C26_TimeslotCleaned ==
    ExportDone
    => \A pair \in PostPairs(call.args[1], call.value) :
          At(pair[2][2], <<"timeslot">>)
              = clean_timeslot(OrElse(Get(pair[1][2], <<"timeslot">>, JStr(<<"all">>)),
                                      JStr(<<"all">>))).value

(***************************************************************************)
(* The renames and the validator together.                                 *)
(***************************************************************************)
\* the issues that report a reference to a missing key: the pool of a block,
\* a block of a set, the preset or the set of a post
DanglingErrors(issues) ==
    SelectSeq(issues,
              LAMBDA x : /\ x.level = "ERROR"
                         /\ \/ Last(x.path) \in {".usernamePool", ".emojiPreset", ".commentsSet"}
                            \/ (Indexed(x.path) /\ Head(x.path) = "commentSets."))

IssuesBefore == validate_database(call.pre_data[2]).issues
IssuesNow == validate_database(data[2]).issues

\* C27: on a well-typed document, a rename that returns true leaves validate
\* with no more dangling-reference ERROR issues than it reported before, and
\* a rename, successful or not, of a document for which validate returns the
\* empty sequence leaves a document for which it returns the empty sequence.
C27_RenameNoNewDangling ==
    (RenameReturned /\ WellTyped(call.pre_data))
    => /\ call.ret \in {"True", "False"}
       /\ call.ret = "True"
             => Len(DanglingErrors(IssuesNow)) <= Len(DanglingErrors(IssuesBefore))
       /\ IssuesBefore = <<>> => IssuesNow = <<>>

\* a rename has succeeded on a well-typed document in which a post or a
\* block named the new key before: validate reported the reference and does
\* no more, while a reference to another missing key is still reported
C27_Witness ==
    /\ RenameReturned
    /\ WellTyped(call.pre_data)
    /\ call.ret = "True"
    /\ Len(DanglingErrors(IssuesNow)) < Len(DanglingErrors(IssuesBefore))

\* a rename has succeeded on a document that validates to the empty
\* sequence and holds a reference to the renamed key
C27_WitnessClean ==
    /\ RenameReturned
    /\ call.ret = "True"
    /\ WellTyped(call.pre_data)
    /\ IssuesBefore = <<>>
    /\ call.op \in PostRenames
    /\ AllPosts(data) # AllPosts(call.pre_data)

(***************************************************************************)
(* The validator and the export together.                                  *)
(***************************************************************************)
\* the exported posts of the heroine and of the public profiles
ExportedPosts(module) ==
    LET profiles == Table(module, "SOCIAL_PROFILES")[2]
        heroine == Table(module, "SOCIAL_HEROINE_PROFILE")
        posts(prof) == At(prof[2], K_posts)[2]
    IN {posts(heroine)[j][2] : j \in DOMAIN posts(heroine)}
       \cup UNION {{posts(profiles[i][2])[j][2] : j \in DOMAIN posts(profiles[i][2])} :
                      i \in DOMAIN profiles}

\* the poolIds of the exported username pools
ExportedPoolIds(module) ==
    LET pools == Table(module, "COMMENT_USERNAME_POOLS")[2]
    IN {pools[i][2][1][2] : i \in DOMAIN pools}

\* the string v is one of the keys
NamesOneOf(v, keys) == IsStr(v) /\ v[2] \in keys

\* every reference the exported module holds resolves within the module
ExportResolves(module) ==
    LET presets == Table(module, "SOCIAL_EMOJI_PRESETS")[2]
        sets == Table(module, "SOCIAL_COMMENT_SETS")[2]
        blocks == Table(module, "SOCIAL_COMMENT_BLOCKS")[2]
    IN /\ \A post \in ExportedPosts(module) :
             /\ Has(post[2], <<"emojiPresetId">>)
                   => NamesOneOf(At(post[2], <<"emojiPresetId">>), KeySet(presets))
             /\ At(post[2], <<"commentsSetId">>) # JStr(<<>>)
                   => NamesOneOf(At(post[2], <<"commentsSetId">>), KeySet(sets))
       /\ \A i \in DOMAIN sets : \A j \in DOMAIN sets[i][2][2] :
             NamesOneOf(sets[i][2][2][j], KeySet(blocks))
       /\ \A i \in DOMAIN blocks :
             NamesOneOf(At(blocks[i][2][2], K_usernamePool), ExportedPoolIds(module))

NoError(issues) == \A i \in DOMAIN issues : issues[i].level # "ERROR"

\* C28 as stated: the export of a document for which the validator reports
\* no ERROR issue has no dangling reference: every exported emojiPresetId is
\* a key of the exported presets, every non-empty commentsSetId a key of the
\* exported sets, every block id of an exported set a key of the exported
\* blocks, and every exported usernamePool a poolId of the exported pools
C28_ExportResolves ==
    (ExportDone /\ NoError(validate_database(call.args[1][2]).issues))
    => ExportResolves(call.value)

(***************************************************************************)
(* A rename and the rename back.                                           *)
(***************************************************************************)
\* the rename that has returned, called again with the two names exchanged
RenameBack ==
    CASE call.op = "rename_username_pool" -> rename_username_pool(Self, NewName, OldName)
      [] call.op = "rename_comment_set" -> rename_comment_set(Self, NewName, OldName)
      [] OTHER -> rename_emoji_preset(Self, NewName, OldName)

\* the reference sites of the kind the rename rewrites: the comment blocks
\* for the pools, the posts for the sets and the presets
Sites(d) == IF call.op = "rename_username_pool" THEN AllBlocks(d) ELSE AllPosts(d)

\* the sites of d that hold the name n
SitesHolding(d, n) ==
    {i \in DOMAIN Sites(d) : RefersTo(Sites(d)[i][2], FieldOf(call.op), n)}

\* equal as mappings, whatever the insertion order of the keys
SameMapping(x, y) == Dumps(x) = Dumps(y)

\* C29: after a successful rename(a, b), rename(b, a) succeeds too, and the
\* document it leaves equals the original as a mapping exactly when no
\* reference site of that kind held b before the first rename; a site that
\* held b before reads a after the second rename.
C29_RenameRoundTrip ==
    (RenameReturned /\ call.ret = "True")
    => /\ RenameBack.ret = "True"
       /\ SameMapping(RenameBack.self.data, call.pre_data)
             <=> SitesHolding(call.pre_data, NewName) = {}
       /\ SitesHolding(call.pre_data, NewName)
             \subseteq SitesHolding(RenameBack.self.data, OldName)

\* a rename has succeeded on a document in which a block or a post already
\* held the new name, next to one that held the old name
C29_Witness ==
    /\ RenameReturned /\ call.ret = "True"
    /\ SitesHolding(call.pre_data, NewName) # {}
    /\ SitesHolding(call.pre_data, OldName) # {}
    /\ ~SameMapping(RenameBack.self.data, call.pre_data)

\* a rename has succeeded, has rewritten a reference, and the rename back
\* restores the document
C29_WitnessBack ==
    /\ RenameReturned /\ call.ret = "True"
    /\ SitesHolding(call.pre_data, OldName) # {}
    /\ SameMapping(RenameBack.self.data, call.pre_data)

(***************************************************************************)
(* pages/page_emoji.py : the presets list edited from the empty document.  *)
(***************************************************************************)
\* number of presets the document may hold
MaxPresets == 3

\* a preset is copied while its name is shorter than this
MaxIdLen == 6

\* PageEmoji._default_preset
default_preset == JDict(<< <<K_order, JInt(0)>> >> \o default_emoji[2])

\* faulty variant of _add_preset_from_text: the new preset keeps the order
\* of the default preset
add_preset_first(self, name0, rows) ==
    LET name == Strip(name0)
        d0 == SetDefault(self.data[2], K_emojiPresets, EmptyDict)
        s0 == [self EXCEPT !.data = JDict(d0)]
        presets == At(d0, K_emojiPresets)
    IN IF name = <<>> THEN Outcome(self, "None")
       ELSE IF Has(presets[2], name) THEN Outcome(s0, "None")
       ELSE Outcome(page_set_dirty(
                       [s0 EXCEPT !.data =
                           JDict(Put(d0, K_emojiPresets,
                                     JDict(Put(rebuild_orders(presets[2], rows, 1),
                                               name, default_preset))))]),
                    "None")

\* PageEmoji._add_preset_from_text, rows the rows of the list widget
add_preset_from_text(self, name0, rows) ==
    LET name == Strip(name0)
        d0 == SetDefault(self.data[2], K_emojiPresets, EmptyDict)
        s0 == [self EXCEPT !.data = JDict(d0)]
        presets == At(d0, K_emojiPresets)
    IN IF name = <<>> THEN Outcome(self, "None")
       ELSE IF Has(presets[2], name) THEN Outcome(s0, "None")
       ELSE Outcome(page_set_dirty(
                       [s0 EXCEPT !.data =
                           JDict(Put(d0, K_emojiPresets,
                                     JDict(Put(rebuild_orders(presets[2], rows, 1),
                                               name,
                                               JDict(Put(default_preset[2], K_order,
                                                         JInt(Len(rows))))))))]),
                    "None")

\* PageEmoji._rename_preset_from_text, old the selected row
rename_preset_from_text(self, old, typed) ==
    LET new == Strip(typed)
        d0 == SetDefault(self.data[2], K_emojiPresets, EmptyDict)
        s0 == [self EXCEPT !.data = JDict(d0)]
        o == rename_emoji_preset(s0, old, new)
    IN IF old = <<>> \/ typed = <<>> \/ new = <<>> \/ new = old THEN Outcome(self, "None")
       ELSE IF Has(At(d0, K_emojiPresets)[2], new) THEN Outcome(s0, "None")
       ELSE Outcome(o.self, IF o.ret \in {"True", "False"} THEN "None" ELSE o.ret)

\* PageEmoji._pack_preset, pid the selected row
pack_preset(self, pid) ==
    JDict(<< <<<<"kind">>, JStr(<<"emoji_preset">>)>>, <<<<"id">>, JStr(pid)>>,
             <<<<"data">>, At(At(self.data[2], K_emojiPresets)[2], pid)>> >>)

\* the rows of the presets list: what the last reload of the page gave it
PresetRows == OrderedIds(At(data[2], K_emojiPresets)[2])

\* a name is typed in the panel and entered
AddPreset ==
    /\ pc = "idle"
    /\ Len(PresetRows) < MaxPresets
    /\ \E name \in Names :
          Returned(add_preset_from_text(Self, name, PresetRows),
                   "add_preset_from_text", <<name>>, TRUE)

\* the selected preset is copied and pasted
PastePreset ==
    /\ pc = "idle"
    /\ Len(PresetRows) < MaxPresets
    /\ \E pid \in {k \in Selectable(K_emojiPresets) : Len(k) < MaxIdLen} :
          Returned(paste_preset(Self, pack_preset(Self, pid), PresetRows),
                   "paste_preset", <<pid>>, TRUE)

\* the selected preset is renamed to what is typed in the panel
RenamePreset ==
    /\ pc = "idle"
    /\ \E old \in Selectable(K_emojiPresets), typed \in Names :
          Returned(rename_preset_from_text(Self, old, typed),
                   "rename_preset_from_text", <<old, typed>>, TRUE)

EditNext ==
    \/ AddPreset
    \/ PastePreset
    \/ DeletePreset
    \/ RenamePreset
    \/ ReorderPresets
    \/ EventLoop

EditSpec == Init /\ [][EditNext]_vars

\* the order of every preset of the document d, by key
PresetOrders(d) ==
    LET presets == At(d[2], K_emojiPresets)[2]
    IN [k \in KeySet(presets) |-> At(At(presets, k)[2], K_order)]

\* the orders are exactly 0 .. n-1, each once
IsPermutation(orders) ==
    /\ {orders[k] : k \in DOMAIN orders} = {JInt(i) : i \in 0..(Cardinality(DOMAIN orders) - 1)}

AddedKeys == DOMAIN PresetOrders(data) \ DOMAIN PresetOrders(call.pre_data)

\* C30: from the empty document, after any sequence of add, paste, delete,
\* rename and reorder on the presets list, the order values of the n presets
\* are exactly 0 .. n-1 with no duplicate; a preset just added or pasted has
\* the largest order; a rename leaves every order value unchanged.
C30_OrderPermutation ==
    /\ IsPermutation(PresetOrders(data))
    /\ (pc = "returned" /\ call.op \in {"add_preset_from_text", "paste_preset"})
          => \A k \in AddedKeys : PresetOrders(data)[k] = JInt(Cardinality(DOMAIN PresetOrders(data)) - 1)
    /\ (pc = "returned" /\ call.op = "rename_preset_from_text" /\ data # call.pre_data)
          => /\ DOMAIN PresetOrders(data)
                  = (DOMAIN PresetOrders(call.pre_data) \ {call.args[1]}) \cup {Strip(call.args[2])}
             /\ \A k \in DOMAIN PresetOrders(call.pre_data) :
                   PresetOrders(call.pre_data)[k]
                       = PresetOrders(data)[IF k = call.args[1] THEN Strip(call.args[2]) ELSE k]

\* a preset has been pasted as the last of three, after a drag had put the
\* presets in another order than the one they were added in
C30_Witness ==
    /\ pc = "returned" /\ call.op = "paste_preset" /\ call.ret = "True"
    /\ Cardinality(AddedKeys) = 1
    /\ Cardinality(DOMAIN PresetOrders(data)) = MaxPresets
    /\ LET before == At(call.pre_data[2], K_emojiPresets)[2]
       IN /\ Len(before) = 2
          /\ At(before[1][2][2], K_order) = JInt(1)
          /\ At(before[2][2][2], K_order) = JInt(0)

\* a rename has moved a preset that was not the last one
C30_WitnessRename ==
    /\ pc = "returned" /\ call.op = "rename_preset_from_text" /\ data # call.pre_data
    /\ Cardinality(DOMAIN PresetOrders(data)) >= 2
    /\ PresetOrders(call.pre_data)[call.args[1]] = JInt(0)

=============================================================================
